---- MODULE Spec2Model ----
(***************************************************************************)
(* Model of enhanced_nature_features.py: the nature-feature enhancer that  *)
(* extracts benches, trees and woods from an OSM document and splices the  *)
(* generated model entries into a Gazebo world file.                       *)
(*                                                                         *)
(* Units.  Python floats are modelled by fixed-point integers:             *)
(*   lat, lon      ticks of 1e-4 degree, relative to the document's base   *)
(*   x, y, offsets centimetres                                             *)
(*   area          square centimetres                                      *)
(*   height        tenths of a metre                                       *)
(*   model scale   hundredths                                              *)
(* Text files are sequences of string tokens: "CR" and "LF" are the two    *)
(* line-end bytes, "</world>" is the closing tag, "x" is any other text,   *)
(* and the inserted marker and model entries are one token each.           *)
(***************************************************************************)
EXTENDS Integers, Sequences, FiniteSets, TLC

\* ------------------------------------------------------------------ bounds
MaxWorldLen == 3
MaxNodes == 2
MaxWays == 2
MaxTags == 3
MaxRuns == 3

\* ------------------------------------------------------- program constants
BENCH_MODEL == "model://FoodCourtBenchLong"
TREE_MODEL_DECIDUOUS == "model://Tree"
TREE_MODEL_CONIFEROUS == "model://PineTree"
CLOSING_TAG == "</world>"
MARKER == "<!-- Enhanced nature features -->"

\* earth_radius * 0.0174533 = 111194.9743 m per degree, i.e. 1112 cm per tick
CmPerTick == 1112
DefaultHeight == 50
LargeWoodArea == 50000000
AreaPerTree == 5000000
MaxTrees == 20
GridCell == 1000
AreaPerScale == 100000
MinWoodScale == 100
MaxWoodScale == 200
HeightPerScale == 5

\* node ids and references are whole numbers; BadRef stands for a reference
\* whose text holds an apostrophe, as in ref="12'3"
BadRef == -1

\* ----------------------------------------------------------------- helpers
Abs(n) == IF n < 0 THEN -n ELSE n

Min(a, b) == IF a < b THEN a ELSE b

Max(a, b) == IF a > b THEN a ELSE b

RECURSIVE SumSeq(_)
SumSeq(s) == IF s = <<>> THEN 0 ELSE Head(s) + SumSeq(Tail(s))

\* int(n ** 0.5) for n >= 0
ISqrt(n) == CHOOSE r \in 0..n : r * r <= n /\ (r + 1) * (r + 1) > n

SeqsUpTo(S, n) == UNION {[1..k -> S] : k \in 0..n}

\* ------------------------------------------------------------ text file io
\* open(path, 'r').read(): universal newlines turn CR LF and a lone CR into LF
RECURSIVE ReadText(_)
ReadText(bytes) ==
    IF bytes = <<>> THEN <<>>
    ELSE IF Head(bytes) = "CR"
         THEN IF Len(bytes) >= 2 /\ bytes[2] = "LF"
              THEN <<"LF">> \o ReadText(Tail(Tail(bytes)))
              ELSE <<"LF">> \o ReadText(Tail(bytes))
         ELSE <<Head(bytes)>> \o ReadText(Tail(bytes))

\* f.write(text) on a file opened with 'w': LF is written as os.linesep,
\* which is LF on the POSIX hosts the tool chain runs on
WriteText(text) == text

\* a find that answers 0, not -1, when the token is absent
RFindMut(content, tok) ==
    IF \E i \in 1..Len(content) : content[i] = tok
    THEN (CHOOSE i \in 1..Len(content) :
             /\ content[i] = tok
             /\ \A j \in (i + 1)..Len(content) : content[j] # tok) - 1
    ELSE 0

\* str.rfind: 0-based position of the last occurrence, -1 when there is none
RFind(content, tok) ==
    IF \E i \in 1..Len(content) : content[i] = tok
    THEN (CHOOSE i \in 1..Len(content) :
             /\ content[i] = tok
             /\ \A j \in (i + 1)..Len(content) : content[j] # tok) - 1
    ELSE -1

\* content[:pos] and content[pos:] for a 0-based pos
Before(content, pos) == SubSeq(content, 1, pos)

After(content, pos) == SubSeq(content, pos + 1, Len(content))

\* ------------------------------------------------------------ OSM document
(* A document is [parsable, baseLat, nodes, ways].  A node is              *)
(* [id, lat, lon, numeric, tags]: numeric is FALSE when its lat or lon     *)
(* attribute is text float() rejects.  A way is [tags, refs].  A tag is    *)
(* [k, v].                                                                 *)

Tag(k, v) == [k |-> k, v |-> v]

\* float(text) for the tag values the documents carry: [ok, val], val in tenths
ParseFloat(text) ==
    CASE text = "5.0" -> [ok |-> TRUE, val |-> 50]
      [] text = "10" -> [ok |-> TRUE, val |-> 100]
      [] text = "2.5" -> [ok |-> TRUE, val |-> 25]
      [] text = "0" -> [ok |-> TRUE, val |-> 0]
      [] text = "-5" -> [ok |-> TRUE, val |-> -50]
      [] OTHER -> [ok |-> FALSE, val |-> 0]

\* float(scale) in __init__: [ok, val], val a whole number
ParseScale(text) ==
    CASE text = "1.0" -> [ok |-> TRUE, val |-> 1]
      [] text = "2.0" -> [ok |-> TRUE, val |-> 2]
      [] OTHER -> [ok |-> FALSE, val |-> 0]

HasTag(tags, k, v) == \E i \in 1..Len(tags) : tags[i].k = k /\ tags[i].v = v

\* lines 79-86: the flags set by the first scan of a node's tags
HasBench(node) == HasTag(node.tags, "amenity", "bench")

HasTree(node) == HasTag(node.tags, "natural", "tree")

\* any leaf_type taken for needleleaved
TreeTypeMut(tags) ==
    IF \E i \in 1..Len(tags) : tags[i].k = "leaf_type" THEN "coniferous" ELSE "deciduous"

\* lines 92-98: tree_type after the second scan
TreeType(tags) ==
    IF HasTag(tags, "leaf_type", "needleleaved") THEN "coniferous" ELSE "deciduous"

\* lines 93-103: height after the second scan, the last height tag deciding
RECURSIVE TreeHeight(_, _)
TreeHeight(tags, height) ==
    IF tags = <<>> THEN height
    ELSE LET t == Head(tags) IN
         IF t.k = "leaf_type" /\ t.v = "needleleaved"
         THEN TreeHeight(Tail(tags), height)
         ELSE IF t.k = "height"
              THEN TreeHeight(Tail(tags),
                              IF ParseFloat(t.v).ok THEN ParseFloat(t.v).val
                              ELSE DefaultHeight)
              ELSE TreeHeight(Tail(tags), height)

\* lines 88-89
RECURSIVE Benches(_)
Benches(nodes) ==
    IF nodes = <<>> THEN <<>>
    ELSE (IF HasBench(Head(nodes))
          THEN <<[lat |-> Head(nodes).lat, lon |-> Head(nodes).lon]>>
          ELSE <<>>) \o Benches(Tail(nodes))

\* lines 91-110
RECURSIVE IndividualTrees(_)
IndividualTrees(nodes) ==
    IF nodes = <<>> THEN <<>>
    ELSE (IF HasTree(Head(nodes))
          THEN <<[lat |-> Head(nodes).lat, lon |-> Head(nodes).lon,
                  type |-> TreeType(Head(nodes).tags),
                  height |-> TreeHeight(Head(nodes).tags, DefaultHeight)]>>
          ELSE <<>>) \o IndividualTrees(Tail(nodes))

\* a species key taken for a wood tag
IsWoodMut(way) ==
    \/ HasTag(way.tags, "natural", "wood")
    \/ HasTag(way.tags, "landuse", "forest")
    \/ \E i \in 1..Len(way.tags) : way.tags[i].k = "wood"

\* lines 117-122
IsWood(way) ==
    HasTag(way.tags, "natural", "wood") \/ HasTag(way.tags, "landuse", "forest")

\* a scan in which an unknown value brings the default back
RECURSIVE WoodTypeResetMut(_, _)
WoodTypeResetMut(tags, wood_type) ==
    IF tags = <<>> THEN wood_type
    ELSE LET t == Head(tags) IN
         IF t.k = "wood" \/ t.k = "leaf_type"
         THEN WoodTypeResetMut(Tail(tags),
                               IF t.v \in {"deciduous", "broadleaved"} THEN "deciduous"
                               ELSE IF t.v \in {"coniferous", "needleleaved"}
                                    THEN "coniferous"
                               ELSE "mixed")
         ELSE WoodTypeResetMut(Tail(tags), wood_type)

\* a scan that reads the `wood` key only
RECURSIVE WoodTypeMut(_, _)
WoodTypeMut(tags, wood_type) ==
    IF tags = <<>> THEN wood_type
    ELSE LET t == Head(tags) IN
         IF t.k = "wood"
         THEN WoodTypeMut(Tail(tags),
                          IF t.v \in {"deciduous", "broadleaved"} THEN "deciduous"
                          ELSE IF t.v \in {"coniferous", "needleleaved"} THEN "coniferous"
                          ELSE IF t.v = "mixed" THEN "mixed"
                          ELSE wood_type)
         ELSE WoodTypeMut(Tail(tags), wood_type)

\* lines 115-130: wood_type after the scan, the last recognised value deciding
RECURSIVE WoodType(_, _)
WoodType(tags, wood_type) ==
    IF tags = <<>> THEN wood_type
    ELSE LET t == Head(tags) IN
         IF t.k = "wood" \/ t.k = "leaf_type"
         THEN WoodType(Tail(tags),
                       IF t.v \in {"deciduous", "broadleaved"} THEN "deciduous"
                       ELSE IF t.v \in {"coniferous", "needleleaved"} THEN "coniferous"
                       ELSE IF t.v = "mixed" THEN "mixed"
                       ELSE wood_type)
         ELSE WoodType(Tail(tags), wood_type)

\* lines 134-141: the (lat, lon) of every reference that resolves, in way order
RECURSIVE WoodNodes(_, _)
WoodNodes(refs, nodes) ==
    IF refs = <<>> THEN <<>>
    ELSE (IF \E i \in 1..Len(nodes) : nodes[i].id = Head(refs)
          THEN LET i == CHOOSE i \in 1..Len(nodes) :
                            /\ nodes[i].id = Head(refs)
                            /\ \A j \in 1..(i - 1) : nodes[j].id # Head(refs)
               IN <<<<nodes[i].lat, nodes[i].lon>>>>
          ELSE <<>>) \o WoodNodes(Tail(refs), nodes)

\* the signed shoelace sum, abs() left out
CalculatePolygonAreaMut(coords, scale) ==
    LET n == Len(coords)
        x(i) == coords[i][2] * CmPerTick * scale
        y(i) == coords[i][1] * CmPerTick * scale
        nxt(i) == (i % n) + 1
        area == SumSeq([i \in 1..n |-> x(i) * y(nxt(i)) - x(nxt(i)) * y(i)])
    IN IF n < 3 THEN 0 ELSE area \div 2

\* lines 170-197: shoelace area of the flattened vertices, in cm2
CalculatePolygonArea(coords, scale) ==
    LET n == Len(coords)
        x(i) == coords[i][2] * CmPerTick * scale
        y(i) == coords[i][1] * CmPerTick * scale
        nxt(i) == (i % n) + 1
        area == SumSeq([i \in 1..n |-> x(i) * y(nxt(i)) - x(nxt(i)) * y(i)])
    IN IF n < 3 THEN 0 ELSE Abs(area) \div 2

\* a filter that counts distinct vertices
RECURSIVE WoodsMut(_, _, _)
WoodsMut(ways, nodes, scale) ==
    IF ways = <<>> THEN <<>>
    ELSE LET way == Head(ways)
             vs == WoodNodes(way.refs, nodes)
         IN (IF IsWood(way) /\ Cardinality({vs[k] : k \in 1..Len(vs)}) > 2
             THEN <<[nodes |-> vs, type |-> WoodType(way.tags, "mixed"),
                     area |-> CalculatePolygonArea(vs, scale)]>>
             ELSE <<>>) \o WoodsMut(Tail(ways), nodes, scale)

\* lines 113-151
RECURSIVE Woods(_, _, _)
Woods(ways, nodes, scale) ==
    IF ways = <<>> THEN <<>>
    ELSE LET way == Head(ways)
             vs == WoodNodes(way.refs, nodes)
         IN (IF IsWood(way) /\ Len(vs) > 2
             THEN <<[nodes |-> vs, type |-> WoodType(way.tags, "mixed"),
                     area |-> CalculatePolygonArea(vs, scale)]>>
             ELSE <<>>) \o Woods(Tail(ways), nodes, scale)

NoFeatures == [benches |-> <<>>, trees |-> <<>>, woods |-> <<>>]

\* a parse failure that goes unnoticed
ExtractRaisesMut(d) == \E i \in 1..Len(d.nodes) : ~d.nodes[i].numeric

\* lines 62-65, 76-77, 137, 166-168: what makes the try block raise: a
\* document that does not parse, float() on a lat or lon that is not a
\* number, and the path expression of line 137 built from a reference that
\* holds an apostrophe
ExtractRaises(d) ==
    \/ ~d.parsable
    \/ \E i \in 1..Len(d.nodes) : ~d.nodes[i].numeric
    \/ \E w \in 1..Len(d.ways) :
          IsWood(d.ways[w]) /\ \E r \in 1..Len(d.ways[w].refs) : d.ways[w].refs[r] = BadRef

\* an extraction that keeps what it had collected when float() raised
ExtractFeaturesMut(d, scale) ==
    IF ~d.parsable THEN NoFeatures
    ELSE LET bad == {i \in 1..Len(d.nodes) : ~d.nodes[i].numeric}
             before == IF bad = {} THEN d.nodes
                       ELSE SubSeq(d.nodes, 1,
                                   (CHOOSE i \in bad : \A j \in bad : i <= j) - 1)
         IN [benches |-> Benches(before),
             trees |-> IndividualTrees(before),
             woods |-> IF ExtractRaises(d) THEN <<>>
                       ELSE Woods(d.ways, d.nodes, scale)]

\* lines 60-168
ExtractFeatures(d, scale) ==
    IF ExtractRaises(d) THEN NoFeatures
    ELSE [benches |-> Benches(d.nodes),
          trees |-> IndividualTrees(d.nodes),
          woods |-> Woods(d.ways, d.nodes, scale)]

\* len(features): the number of keys, not of features
FeatureCountMut(f) == Cardinality(DOMAIN f)

\* line 208
FeatureCount(f) == Len(f.benches) + Len(f.trees) + Len(f.woods)

\* ------------------------------------------------------ coordinate conversion
\* math.cos of the document's latitude, in thousandths
CosMilli(baseLat) == IF baseLat = 60 THEN 500 ELSE 1000

\* an unbound `math` that goes unnoticed
LatLonRaisesMut(d, mathBound) ==
    \/ ~d.parsable
    \/ (d.nodes # <<>> /\ ~d.nodes[1].numeric)

\* lines 368-369, 373-374, 384: what makes the try block of _latlon_to_xy raise.
\* `math` is bound only by the import in the __main__ block (line 411).
LatLonRaises(d, mathBound) ==
    \/ ~d.parsable
    \/ (d.nodes # <<>> /\ ~d.nodes[1].numeric)
    \/ ~mathBound

\* the reference taken at the base of the map, not at the first node
LatLonToXYMut(lat, lon, d, scale, mathBound) ==
    IF LatLonRaises(d, mathBound) THEN <<0, 0>>
    ELSE LET x == ((((CmPerTick * lon) \div 1000) * scale)
                     * CosMilli(d.baseLat)) \div 1000
             y == ((CmPerTick * lat) \div 1000) * scale
         IN <<x, y>>

\* an except clause that hands back what it was given
LatLonToXYUnswallowedMut(lat, lon, d, scale, mathBound) ==
    IF LatLonRaises(d, mathBound) THEN <<lat, lon>>
    ELSE LET ref_lat == IF d.nodes # <<>> THEN d.nodes[1].lat * 1000 ELSE lat
             ref_lon == IF d.nodes # <<>> THEN d.nodes[1].lon * 1000 ELSE lon
             x == ((((CmPerTick * (lon - ref_lon)) \div 1000) * scale)
                     * CosMilli(d.baseLat)) \div 1000
             y == ((CmPerTick * (lat - ref_lat)) \div 1000) * scale
         IN <<x, y>>

\* lines 360-391, lat and lon in thousandths of a tick: <<x, y>> in cm
LatLonToXY(lat, lon, d, scale, mathBound) ==
    IF LatLonRaises(d, mathBound) THEN <<0, 0>>
    ELSE LET ref_lat == IF d.nodes # <<>> THEN d.nodes[1].lat * 1000 ELSE lat
             ref_lon == IF d.nodes # <<>> THEN d.nodes[1].lon * 1000 ELSE lon
             x == ((((CmPerTick * (lon - ref_lon)) \div 1000) * scale)
                     * CosMilli(d.baseLat)) \div 1000
             y == ((CmPerTick * (lat - ref_lat)) \div 1000) * scale
         IN <<x, y>>

\* ------------------------------------------------------------ random source
(* random.uniform draws from a seeded generator: the stream is fixed by    *)
(* the generator's state when the run starts.  u is 0, 1 or 2 for the low  *)
(* end, the middle and the high end of the interval.                       *)
RandomUnit(seed, k) ==
    (CASE k % 3 = 0 -> seed + (k \div 3)
       [] k % 3 = 1 -> (seed \div 3) + (k \div 3)
       [] OTHER -> seed + 2 * (k \div 3)) % 3

\* random.uniform(a, b)
Uniform(a, b, u) == a + ((b - a) * u) \div 2

\* ------------------------------------------------------- model generation
\* a sub-placement named without its wood
WoodTreeNameMut(i, j) == "tree_" \o ToString(j + 1)

\* lines 261, 275, 295, 332: the f-strings that name the placements
BenchName(i) == "bench_" \o ToString(i + 1)

TreeName(i) == "tree_" \o ToString(i + 1)

WoodName(i) == "wood_" \o ToString(i + 1)

\* line 332
WoodTreeName(i, j) == "tree_" \o WoodName(i) \o "_" \o ToString(j + 1)

\* the else branch naming the wrong catalog entry
TreeModelUriMut(tree_type) ==
    IF tree_type = "deciduous" THEN TREE_MODEL_DECIDUOUS ELSE BENCH_MODEL

\* lines 276, 326
TreeModelUri(tree_type) ==
    IF tree_type = "deciduous" THEN TREE_MODEL_DECIDUOUS ELSE TREE_MODEL_CONIFEROUS

\* line 345
SmallWoodUri(wood_type) ==
    IF wood_type \in {"deciduous", "mixed"} THEN TREE_MODEL_DECIDUOUS
    ELSE TREE_MODEL_CONIFEROUS

\* lines 263-270, 279-287, 331-339, 348-356: one <model> entry
Placement(kind, name, uri, x, y, has_scale, scale) ==
    [kind |-> kind, name |-> name, uri |-> uri,
     pose |-> <<x, y, 0, 0, 0, 0>>,
     has_scale |-> has_scale, scale |-> <<scale, scale, scale>>,
     static |-> TRUE]

\* lines 258-270, i 0-based
BenchPlacement(i, bench, d, scale, mathBound) ==
    LET xy == LatLonToXY(bench.lat * 1000, bench.lon * 1000, d, scale, mathBound)
    IN Placement("bench", BenchName(i), BENCH_MODEL, xy[1], xy[2], FALSE, 100)

\* line 277: height / 5.0, in hundredths
TreeScale(height) == (height * 10) \div HeightPerScale

\* lines 273-287, i 0-based
TreePlacement(i, tree, d, scale, mathBound) ==
    LET xy == LatLonToXY(tree.lat * 1000, tree.lon * 1000, d, scale, mathBound)
    IN Placement("tree", TreeName(i), TreeModelUri(tree.type), xy[1], xy[2],
                 TRUE, TreeScale(tree.height))

\* lines 292-294: the projected mean of the vertices
WoodCentroid(wood, d, scale, mathBound) ==
    LET n == Len(wood.nodes)
        centroid_lat == (SumSeq([k \in 1..n |-> wood.nodes[k][1]]) * 1000) \div n
        centroid_lon == (SumSeq([k \in 1..n |-> wood.nodes[k][2]]) * 1000) \div n
    IN LatLonToXY(centroid_lat, centroid_lon, d, scale, mathBound)

\* the cap of 20 left out
WoodMaxTreesMut(area) == area \div AreaPerTree

\* line 301
WoodMaxTrees(area) == Min(MaxTrees, area \div AreaPerTree)

\* the alternation counted from 1
WoodTreeTypeMut(wood_type, j) ==
    IF wood_type = "mixed"
    THEN (IF (j + 1) % 2 = 0 THEN "deciduous" ELSE "coniferous")
    ELSE wood_type

\* lines 320-324
WoodTreeType(wood_type, j) ==
    IF wood_type = "mixed"
    THEN (IF j % 2 = 0 THEN "deciduous" ELSE "coniferous")
    ELSE wood_type

\* lines 303-339: sub-placement j (0-based) of large wood i, drawing from k on
WoodTreePlacement(i, j, wood, xy, seed, k) ==
    LET max_trees == WoodMaxTrees(wood.area)
        grid_size == ISqrt(max_trees)
        row == j \div grid_size
        col == j % grid_size
        offset_x == ((2 * row - grid_size) * GridCell) \div 2
        offset_y == ((2 * col - grid_size) * GridCell) \div 2
        rand_x == Uniform(-500, 500, RandomUnit(seed, k))
        rand_y == Uniform(-500, 500, RandomUnit(seed, k + 1))
        scale == Uniform(80, 130, RandomUnit(seed, k + 2))
    IN Placement("wood_tree", WoodTreeName(i, j),
                 TreeModelUri(WoodTreeType(wood.type, j)),
                 xy[1] + offset_x + rand_x, xy[2] + offset_y + rand_y, TRUE, scale)

\* line 346: min(2.0, max(1.0, area / 1000)), in hundredths
SmallWoodScale(area) == Min(MaxWoodScale, Max(MinWoodScale, area \div AreaPerScale))

\* the boundary taken as large
IsLargeWoodMut(wood) == wood.area >= LargeWoodArea

\* line 298
IsLargeWood(wood) == wood.area > LargeWoodArea

\* lines 290-356: the placements of wood i (0-based), drawing from k on
WoodPlacements(i, wood, d, scale, mathBound, seed, k) ==
    LET xy == WoodCentroid(wood, d, scale, mathBound)
    IN IF IsLargeWood(wood)
       THEN [j \in 1..WoodMaxTrees(wood.area) |->
                WoodTreePlacement(i, j - 1, wood, xy, seed, k + 3 * (j - 1))]
       ELSE <<Placement("wood", WoodName(i), SmallWoodUri(wood.type),
                        xy[1], xy[2], TRUE, SmallWoodScale(wood.area))>>

\* the random draws wood i consumes
WoodDraws(wood) == IF IsLargeWood(wood) THEN 3 * WoodMaxTrees(wood.area) ELSE 0

RECURSIVE AllWoodPlacements(_, _, _, _, _, _, _)
AllWoodPlacements(i, woods, d, scale, mathBound, seed, k) ==
    IF i >= Len(woods) THEN <<>>
    ELSE <<WoodPlacements(i, woods[i + 1], d, scale, mathBound, seed, k)>>
         \o AllWoodPlacements(i + 1, woods, d, scale, mathBound, seed,
                              k + WoodDraws(woods[i + 1]))

\* lines 253-358: the entries of `content`, each a sequence of placements
GenerateContent(f, d, scale, mathBound, seed) ==
    [i \in 1..Len(f.benches) |->
        <<BenchPlacement(i - 1, f.benches[i], d, scale, mathBound)>>]
    \o [i \in 1..Len(f.trees) |->
        <<TreePlacement(i - 1, f.trees[i], d, scale, mathBound)>>]
    \o AllWoodPlacements(0, f.woods, d, scale, mathBound, seed, 0)

RECURSIVE Flatten(_)
Flatten(ss) == IF ss = <<>> THEN <<>> ELSE Head(ss) \o Flatten(Tail(ss))

\* the text of one <model> entry
Fragment(p) ==
    "<model name=\"" \o p.name \o "\"><include><uri>" \o p.uri \o "</uri><pose>"
    \o ToString(p.pose[1]) \o " " \o ToString(p.pose[2]) \o " 0 0 0 0</pose>"
    \o (IF p.has_scale
        THEN "<scale>" \o ToString(p.scale[1]) \o " " \o ToString(p.scale[2])
             \o " " \o ToString(p.scale[3]) \o "</scale>"
        ELSE "")
    \o "</include><static>true</static></model>"

\* "\n".join(items) for items that are token sequences
RECURSIVE Join(_)
Join(items) ==
    IF items = <<>> THEN <<>>
    ELSE IF Len(items) = 1 THEN Head(items)
    ELSE Head(items) \o <<"LF">> \o Join(Tail(items))

\* lines 342, 358: "\n".join(content), large woods joined by line 342 first
ContentText(content) ==
    Join([i \in 1..Len(content) |->
            Join([j \in 1..Len(content[i]) |-> <<Fragment(content[i][j])>>])])

\* lines 253-358: the text _generate_gazebo_models returns
GenerateGazeboModels(f, d, scale, mathBound, seed) ==
    ContentText(GenerateContent(f, d, scale, mathBound, seed))

\* lines 230-235
UpdatedContent(world_content, insert_position, new_content) ==
    Before(world_content, insert_position)
    \o <<"LF", MARKER, "LF">>
    \o new_content
    \o After(world_content, insert_position)

\* -------------------------------------------------------------------- state
VARIABLES
    pc,               \* position in enhance_world_with_nature_features
    result,           \* "none", "True", "False", or "exception" when one escapes
    dir,              \* directory of the world file: "missing", "ro", "rw"
    modelsDir,        \* <dir>/models: "absent", "dir", "file"
    worldExists, world, worldWritable,
    bakExists, bak, bakWritable,
    osm,              \* the OSM document
    scaleArg,         \* the scale argument as passed
    mathBound,        \* TRUE when run as a script (line 411 binds math)
    seed,             \* state of the random generator
    scale, features, world_content, insert_position,
    placements,
    swallowed,        \* for each call of _latlon_to_xy, whether its except ran
    new_content, updated_content,
    world0, bak0, bakExists0,   \* the files as the run found them
    writes,           \* the files opened for writing, in order
    runs,             \* the number of this run on the scene file, from 1
    scenes,           \* the scene file as each run so far found it
    wpc,              \* position in integrated_workflow
    commands,         \* the commands handed to subprocess.run, in order
    outcomes,         \* how each of them ended
    exitStatus,       \* exit status of the workflow process, -1 while it runs
    printed,          \* the messages printed, in order
    simple_mode, auto_launch, wscale,   \* arguments of integrated_workflow
    gazebo,           \* "none", "launched", "failed" or "hint"
    argv_scale,       \* the text after --scale on the command line, or "absent"
    outputDir,        \* the output directory: "absent", "blocked", "file", "dir", "ro"
    meshDir,          \* <output>/meshes: "absent", "dir", "file"
    fpc,              \* position in fix_mesh_orientation
    world_path,       \* the text of the file at world_path
    fix_content,      \* `content` of fix_mesh_orientation
    rotation,         \* the rotation argument
    world_found       \* the file at world_path as fix_mesh_orientation found it

vars == <<pc, result, dir, modelsDir, worldExists, world, worldWritable,
          bakExists, bak, bakWritable, osm, scaleArg, mathBound, seed,
          scale, features, world_content, insert_position,
          placements, swallowed, new_content, updated_content,
          world0, bak0, bakExists0, writes, runs, scenes,
          wpc, commands, outcomes, exitStatus, printed,
          simple_mode, auto_launch, wscale, gazebo,
          argv_scale, outputDir, meshDir,
          fpc, world_path, fix_content, rotation, world_found>>

history == <<runs, scenes>>

\* the state of enhanced_nature_features.py
enhancer == <<pc, result, dir, modelsDir, worldExists, world, worldWritable,
              bakExists, bak, bakWritable, osm, scaleArg, mathBound, seed,
              scale, features, world_content, insert_position,
              placements, swallowed, new_content, updated_content,
              world0, bak0, bakExists0, writes, runs, scenes>>

\* the state of osm_to_gazebo.py
\* the command line and the directories of osm_to_gazebo.py
surroundings == <<argv_scale, outputDir, meshDir>>

workflow == <<wpc, commands, outcomes, exitStatus, printed,
              simple_mode, auto_launch, wscale, gazebo, surroundings>>

\* the state of the other programs of the repository
\* the state of fix_orientation.py
orientation == <<fpc, world_path, fix_content, rotation, world_found>>

others == <<workflow, orientation>>

inputs == <<osm, scaleArg, mathBound, seed, world0, bak0, bakExists0>>

locals == <<scale, features, world_content, insert_position,
            placements, swallowed, new_content, updated_content>>

files == <<dir, modelsDir, worldExists, world, worldWritable,
           bakExists, bak, bakWritable, writes>>

\* ------------------------------------------------------------------ inputs
WorldTokens == {"x", "CR", "LF", CLOSING_TAG}

WorldTexts == SeqsUpTo(WorldTokens, MaxWorldLen)

\* the corners of a square of `side` ticks, after the feature nodes
CornerNodes(side) ==
    <<[id |-> 101, lat |-> 0, lon |-> 0, numeric |-> TRUE, tags |-> <<>>],
      [id |-> 102, lat |-> 0, lon |-> side, numeric |-> TRUE, tags |-> <<>>],
      [id |-> 103, lat |-> side, lon |-> side, numeric |-> TRUE, tags |-> <<>>],
      [id |-> 104, lat |-> side, lon |-> 0, numeric |-> TRUE, tags |-> <<>>]>>

Sides == {7, 9}

NodeKinds ==
    {[numeric |-> TRUE, tags |-> <<Tag("amenity", "bench")>>],
     [numeric |-> TRUE, tags |-> <<Tag("natural", "tree")>>],
     [numeric |-> TRUE, tags |-> <<Tag("natural", "tree"),
                                   Tag("leaf_type", "needleleaved")>>],
     [numeric |-> TRUE, tags |-> <<Tag("amenity", "bench"), Tag("natural", "tree"),
                                   Tag("height", "10")>>]}

WayKinds ==
    {[tags |-> <<Tag("natural", "wood")>>, refs |-> <<101, 102, 103, 104>>],
     [tags |-> <<Tag("landuse", "forest"), Tag("leaf_type", "needleleaved")>>,
      refs |-> <<101, 102, 999, 103>>],
     [tags |-> <<Tag("wood", "deciduous"), Tag("natural", "wood")>>,
      refs |-> <<101, 103, 104>>],
     [tags |-> <<Tag("natural", "wood"), Tag("wood", "mixed")>>,
      refs |-> <<101, 888, 102>>]}

\* feature node i of a document sits at (i, 2 i) ticks
FeatureNodes(kinds) ==
    [i \in 1..Len(kinds) |->
        [id |-> i, lat |-> i, lon |-> 2 * i,
         numeric |-> kinds[i].numeric, tags |-> kinds[i].tags]]

Doc(parsable, baseLat, kinds, side, ways) ==
    [parsable |-> parsable, baseLat |-> baseLat,
     nodes |-> FeatureNodes(kinds) \o CornerNodes(side), ways |-> ways]

Docs ==
    {Doc(TRUE, 0, kinds, side, ways) :
        kinds \in SeqsUpTo(NodeKinds, MaxNodes), side \in Sides,
        ways \in SeqsUpTo(WayKinds, MaxWays)}

\* the documents of the file-system runs: unparsable, a non-numeric lat, no
\* features, one bench, and a bench, a tree and a large wood
BadNode == [numeric |-> FALSE, tags |-> <<Tag("amenity", "bench")>>]

BenchNode == [numeric |-> TRUE, tags |-> <<Tag("amenity", "bench")>>]

TreeNode == [numeric |-> TRUE, tags |-> <<Tag("natural", "tree")>>]

WoodWay == [tags |-> <<Tag("natural", "wood")>>, refs |-> <<101, 102, 103, 104>>]

FewDocs ==
    {Doc(FALSE, 0, <<BenchNode>>, 1, <<>>),
     Doc(TRUE, 0, <<BenchNode, BadNode>>, 1, <<>>),
     Doc(TRUE, 0, <<>>, 1, <<>>),
     Doc(TRUE, 0, <<BenchNode>>, 1, <<>>),
     Doc(TRUE, 60, <<BenchNode, TreeNode>>, 7, <<WoodWay>>)}

\* -------------------------------------------------------------------- Init
\* the other programs of the repository are not run
WorkflowIdle ==
    /\ wpc = "idle"
    /\ commands = <<>>
    /\ outcomes = <<>>
    /\ exitStatus = -1
    /\ printed = <<>>
    /\ simple_mode = FALSE
    /\ auto_launch = FALSE
    /\ wscale = "1.0"
    /\ gazebo = "none"
    /\ argv_scale = "absent"
    /\ outputDir = "absent"
    /\ meshDir = "absent"

OrientationIdle ==
    /\ fpc = "idle"
    /\ world_path = <<>>
    /\ fix_content = <<>>
    /\ rotation = "1.5708 0 0"
    /\ world_found = <<>>

OthersIdle == WorkflowIdle /\ OrientationIdle

\* enhance_world_with_nature_features is about to be called
InitEnhancer ==
    /\ pc = "call"
    /\ result = "none"
    /\ scale = 0
    /\ features = NoFeatures
    /\ world_content = <<>>
    /\ insert_position = -1
    /\ placements = <<>>
    /\ swallowed = <<>>
    /\ new_content = <<>>
    /\ updated_content = <<>>
    /\ writes = <<>>
    /\ world0 = world
    /\ bak0 = bak
    /\ bakExists0 = bakExists
    /\ runs = 1
    /\ scenes = <<world>>

InitLocals ==
    /\ InitEnhancer
    /\ OthersIdle

\* the enhancer is not run
EnhancerIdle ==
    /\ dir = "rw"
    /\ modelsDir = "absent"
    /\ worldExists = FALSE
    /\ world = <<>>
    /\ worldWritable = FALSE
    /\ bakExists = FALSE
    /\ bak = <<>>
    /\ bakWritable = FALSE
    /\ osm = Doc(TRUE, 0, <<>>, 3, <<>>)
    /\ scaleArg = "1.0"
    /\ mathBound = TRUE
    /\ seed = 0
    /\ InitEnhancer

\* every file-system situation, a few documents
Init ==
    /\ dir \in {"missing", "ro", "rw"}
    /\ modelsDir \in (IF dir = "missing" THEN {"absent"} ELSE {"absent", "dir", "file"})
    /\ worldExists \in (IF dir = "missing" THEN {FALSE} ELSE BOOLEAN)
    /\ world \in (IF worldExists THEN WorldTexts ELSE {<<>>})
    /\ worldWritable \in (IF worldExists THEN BOOLEAN ELSE {FALSE})
    /\ bakExists \in (IF dir = "missing" THEN {FALSE} ELSE BOOLEAN)
    /\ bak \in (IF bakExists THEN {<<"x">>} ELSE {<<>>})
    /\ bakWritable \in (IF bakExists THEN BOOLEAN ELSE {FALSE})
    /\ osm \in FewDocs
    /\ scaleArg \in {"1.0", "abc"}
    /\ mathBound \in BOOLEAN
    /\ seed = 0
    /\ InitLocals

\* every document, a sound file system
InitGen ==
    /\ dir = "rw"
    /\ modelsDir = "dir"
    /\ worldExists = TRUE
    /\ world = <<"x", CLOSING_TAG>>
    /\ worldWritable = TRUE
    /\ bakExists = FALSE
    /\ bak = <<>>
    /\ bakWritable = FALSE
    /\ osm \in Docs
    /\ scaleArg = "1.0"
    /\ mathBound = TRUE
    /\ seed = 0
    /\ InitLocals

\* a scene directory in which every step of the run succeeds
SoundFiles ==
    /\ dir = "rw"
    /\ modelsDir = "dir"
    /\ worldExists = TRUE
    /\ world = <<"x", CLOSING_TAG>>
    /\ worldWritable = TRUE
    /\ bakExists = FALSE
    /\ bak = <<>>
    /\ bakWritable = FALSE

\* the states of the random generator a run may start from
Seeds == 0..2

\* tree nodes by their height tags: zero, negative, fractional, not a number,
\* two height tags, and a height next to a leaf_type
HeightKinds ==
    {[numeric |-> TRUE, tags |-> <<Tag("natural", "tree"), Tag("height", "0")>>],
     [numeric |-> TRUE, tags |-> <<Tag("natural", "tree"), Tag("height", "-5")>>],
     [numeric |-> TRUE, tags |-> <<Tag("height", "2.5"), Tag("natural", "tree")>>],
     [numeric |-> TRUE, tags |-> <<Tag("natural", "tree"), Tag("height", "abc")>>],
     [numeric |-> TRUE, tags |-> <<Tag("natural", "tree"), Tag("height", "10"),
                                   Tag("height", "abc")>>],
     [numeric |-> TRUE, tags |-> <<Tag("natural", "tree"),
                                   Tag("leaf_type", "needleleaved"),
                                   Tag("height", "10")>>]}

HeightDocs ==
    {Doc(TRUE, 0, kinds, side, ways) :
        kinds \in SeqsUpTo(HeightKinds, MaxNodes), side \in {4, 9},
        ways \in {<<>>, <<WoodWay>>}}

\* trees of every height, alone or next to a small or a large wood
InitHeights ==
    /\ SoundFiles
    /\ osm \in HeightDocs
    /\ scaleArg = "1.0"
    /\ mathBound = TRUE
    /\ seed \in Seeds
    /\ InitLocals

\* wood ways by species tags and by the shape their references draw on the
\* corner nodes: square, square walked backwards, closed ring, triangle,
\* and a self-crossing ring
WoodWayKinds ==
    {[tags |-> <<Tag("natural", "wood")>>, refs |-> <<101, 102, 103, 104>>],
     [tags |-> <<Tag("landuse", "forest")>>, refs |-> <<101, 102, 103, 104>>],
     [tags |-> <<Tag("natural", "wood"), Tag("leaf_type", "needleleaved")>>,
      refs |-> <<101, 102, 103, 104>>],
     [tags |-> <<Tag("wood", "deciduous"), Tag("landuse", "forest")>>,
      refs |-> <<101, 103, 104>>],
     [tags |-> <<Tag("natural", "wood")>>, refs |-> <<104, 103, 102, 101>>],
     [tags |-> <<Tag("natural", "wood"), Tag("wood", "coniferous")>>,
      refs |-> <<101, 102, 103, 104, 101>>],
     [tags |-> <<Tag("landuse", "forest"), Tag("leaf_type", "broadleaved")>>,
      refs |-> <<101, 103, 102, 104>>],
     [tags |-> <<Tag("natural", "wood"), Tag("wood", "mixed")>>,
      refs |-> <<104, 103, 101>>]}

\* sides in ticks: at scale 1 a square of 9 ticks covers 10015 m2, one of
\* 10 ticks (0.001 degree, 111 m) 12365 m2, one of 6 ticks 4451 m2
WoodSides == {3, 6, 7, 9, 10}

WoodDocs ==
    {Doc(TRUE, baseLat, <<>>, side, ways) :
        baseLat \in {0, 60}, side \in WoodSides,
        ways \in {<<w>> : w \in WoodWayKinds}
                 \cup {<<WoodWay, w>> : w \in WoodWayKinds}}

\* documents of one or two woods, at two latitudes and two map scales
InitWoods ==
    /\ SoundFiles
    /\ osm \in WoodDocs
    /\ scaleArg \in {"1.0", "2.0"}
    /\ mathBound = TRUE
    /\ seed \in Seeds
    /\ InitLocals

\* areas in cm2 on both sides of the thresholds of lines 298, 301 and 346:
\* 0, 999.99, 1000, 1500, 2000.01, 4999.99, 5000, 5000.01, 5500, 9999.99,
\* 10000 and 20000 m2
SynthAreas ==
    {0, 9999900, 10000000, 15000000, 20000100, 49999900, 50000000, 50000100,
     55000000, 99999900, 100000000, 200000000}

SynthSide == 6

\* the feature lists handed to _generate_gazebo_models: a polygon's area
\* varies continuously with its vertices and the map scale, so every area
\* goes with every shape and species class
SynthWoods ==
    [nodes : {<<<<0, 0>>, <<0, SynthSide>>, <<SynthSide, SynthSide>>, <<SynthSide, 0>>>>,
              <<<<0, 0>>, <<SynthSide, SynthSide>>, <<SynthSide, 0>>>>},
     type : {"deciduous", "coniferous", "mixed"},
     area : SynthAreas]

SynthFirstWood ==
    [nodes |-> <<<<0, 0>>, <<0, SynthSide>>, <<SynthSide, SynthSide>>, <<SynthSide, 0>>>>,
     type |-> "mixed", area |-> 15000000]

\* _generate_gazebo_models called on one or two woods of any area, the scene
\* text read and the closing tag found
InitSynth ==
    /\ SoundFiles
    /\ osm \in {Doc(TRUE, baseLat, <<>>, SynthSide, <<WoodWay>>) : baseLat \in {0, 60}}
    /\ scaleArg \in {"1.0", "2.0"}
    /\ mathBound = TRUE
    /\ seed \in Seeds
    /\ pc = "generate"
    /\ result = "none"
    /\ scale = ParseScale(scaleArg).val
    /\ features \in {[benches |-> <<>>, trees |-> <<>>, woods |-> ws] :
                        ws \in {<<w>> : w \in SynthWoods}
                               \cup {<<SynthFirstWood, w>> : w \in SynthWoods}}
    /\ world_content = ReadText(world)
    /\ insert_position = RFind(world_content, CLOSING_TAG)
    /\ placements = <<>>
    /\ swallowed = <<>>
    /\ new_content = <<>>
    /\ updated_content = <<>>
    /\ writes = <<>>
    /\ world0 = world
    /\ bak0 = bak
    /\ bakExists0 = bakExists
    /\ runs = 1
    /\ scenes = <<world>>
    /\ OthersIdle

\* the references of a way walked backwards
Reverse(s) == [i \in 1..Len(s) |-> s[Len(s) + 1 - i]]

PlainNode == [numeric |-> TRUE, tags |-> <<>>]

\* every walk of three or four references over the node at (1, 2) and the
\* four corners: convex, concave, self-crossing and degenerate polygons in
\* both orientations
VertexWalks == [1..3 -> {1, 101, 102, 103, 104}] \cup [1..4 -> {1, 101, 102, 103, 104}]

AreaDocs ==
    {Doc(TRUE, 0, <<PlainNode>>, side,
         <<[tags |-> <<Tag("natural", "wood")>>, refs |-> refs],
           [tags |-> <<Tag("natural", "wood")>>, refs |-> Reverse(refs)]>>) :
        side \in {3, 5}, refs \in VertexWalks}

\* a wood way and the same way walked backwards, for every walk
InitArea ==
    /\ SoundFiles
    /\ osm \in AreaDocs
    /\ scaleArg \in {"1.0", "2.0"}
    /\ mathBound = TRUE
    /\ seed = 0
    /\ InitLocals

\* where the first node of a document may sit, in ticks from the base
RefPositions == {<<0, 0>>, <<3, -2>>, <<-4, 5>>}

\* documents by their first node: a bench, a tree, both or neither, alone
\* or followed by a bench one tick north-east of the base
RefDocs ==
    {[parsable |-> TRUE, baseLat |-> baseLat,
      nodes |-> <<[id |-> 1, lat |-> at[1], lon |-> at[2],
                   numeric |-> TRUE, tags |-> kind.tags]>> \o rest,
      ways |-> <<>>] :
        baseLat \in {0, 60}, at \in RefPositions,
        kind \in {BenchNode, TreeNode, PlainNode} \cup NodeKinds,
        rest \in {<<>>, <<[id |-> 2, lat |-> 1, lon |-> 1,
                           numeric |-> TRUE, tags |-> BenchNode.tags]>>}}

\* one or two nodes, every map scale, run as a script or imported
InitRef ==
    /\ SoundFiles
    /\ osm \in RefDocs
    /\ scaleArg \in {"1.0", "2.0"}
    /\ mathBound \in BOOLEAN
    /\ seed = 0
    /\ InitLocals

\* the tags a way may carry: the two wood tags, the same key and the same
\* value in other pairs, species values on both species keys, a value the
\* scan does not know, and a species value under another key
WayTags ==
    {Tag("natural", "wood"), Tag("landuse", "forest"),
     Tag("natural", "forest"), Tag("wood", "deciduous"),
     Tag("leaf_type", "broadleaved"), Tag("wood", "coniferous"),
     Tag("leaf_type", "needleleaved"), Tag("wood", "mixed"),
     Tag("leaf_type", "palm"), Tag("species", "deciduous")}

TagDocs ==
    {Doc(TRUE, 0, <<>>, 3, ways) :
        ways \in {<<[tags |-> tags, refs |-> <<101, 102, 103, 104>>]>> :
                     tags \in SeqsUpTo(WayTags, MaxTags)}
                 \cup {<<WoodWay, [tags |-> tags, refs |-> <<101, 102, 103>>]>> :
                         tags \in SeqsUpTo(WayTags, MaxTags)}}

\* a way with every sequence of tags, alone or after a wood
InitTags ==
    /\ SoundFiles
    /\ osm \in TagDocs
    /\ scaleArg = "1.0"
    /\ mathBound = TRUE
    /\ seed = 0
    /\ InitLocals

\* an untagged node whose lat is not a number
PlainBadNode == [numeric |-> FALSE, tags |-> <<>>]

\* the first two nodes of a document: features, a tree whose height is not a
\* number, and nodes whose lat is not a number after a feature
DegenerateKinds ==
    {<<BenchNode, TreeNode>>,
     <<BenchNode, [numeric |-> TRUE,
                   tags |-> <<Tag("natural", "tree"), Tag("height", "abc")>>]>>,
     <<BenchNode, BadNode>>,
     <<TreeNode, PlainBadNode>>,
     <<PlainNode, PlainNode>>}

\* references to the nodes at (1, 2) and (2, 4), to the corners at (0, 0) and
\* (3, 3), to a node that is not in the document, and one with an apostrophe
RefIds == {1, 2, 101, 103, 999, BadRef}

RefWalks == [1..2 -> RefIds] \cup [1..3 -> RefIds]

DegenerateDocs ==
    {Doc(TRUE, 0, kinds, 3, ways) :
        kinds \in DegenerateKinds,
        ways \in {<<[tags |-> <<Tag("natural", "wood")>>, refs |-> refs]>> :
                     refs \in RefWalks}
                 \cup {<<[tags |-> <<Tag("natural", "wood")>>, refs |-> refs], WoodWay>> :
                         refs \in RefWalks}
                 \cup {<<[tags |-> <<Tag("highway", "path")>>,
                          refs |-> <<BadRef, 101, 103>>], WoodWay>>}}

\* a wood way over every walk of two or three references, alone or before a
\* second wood, in documents with and without a node that is not numeric
InitDegenerate ==
    /\ SoundFiles
    /\ osm \in DegenerateDocs
    /\ scaleArg = "1.0"
    /\ mathBound = TRUE
    /\ seed = 0
    /\ InitLocals

\* nodes that are neither bench nor tree although a tag comes close, and a
\* tree with a leaf_type other than needleleaved
NearKinds ==
    {PlainNode,
     [numeric |-> TRUE, tags |-> <<Tag("leaf_type", "needleleaved"), Tag("height", "10")>>],
     [numeric |-> TRUE, tags |-> <<Tag("amenity", "tree"), Tag("natural", "bench")>>],
     [numeric |-> TRUE, tags |-> <<Tag("leaf_type", "broadleaved"),
                                   Tag("natural", "tree")>>]}

NodeDocs ==
    {Doc(TRUE, 0, kinds, 3, <<>>) :
        kinds \in SeqsUpTo(NodeKinds \cup HeightKinds \cup NearKinds, MaxNodes)}

\* documents of nodes only, every kind of node at every place
InitNodes ==
    /\ SoundFiles
    /\ osm \in NodeDocs
    /\ scaleArg = "1.0"
    /\ mathBound = TRUE
    /\ seed = 0
    /\ InitLocals

\* scene files for repeated runs: LF and CR LF line ends, and a closing tag
\* that occurs twice
RunWorlds ==
    {<<"x", CLOSING_TAG>>,
     <<"x", "CR", "LF", CLOSING_TAG, "CR", "LF">>,
     <<CLOSING_TAG, "x", CLOSING_TAG>>}

RunDocs ==
    {Doc(TRUE, 0, <<BenchNode>>, 3, <<>>),
     Doc(TRUE, 0, <<BenchNode, TreeNode>>, 3, <<WoodWay>>)}

\* the first of several runs of the script on one scene file
InitRuns ==
    /\ dir = "rw"
    /\ modelsDir \in {"absent", "dir"}
    /\ worldExists = TRUE
    /\ world \in RunWorlds
    /\ worldWritable = TRUE
    /\ bakExists \in BOOLEAN
    /\ bak \in (IF bakExists THEN {<<"x">>} ELSE {<<>>})
    /\ bakWritable = bakExists
    /\ osm \in RunDocs
    /\ scaleArg = "1.0"
    /\ mathBound \in BOOLEAN
    /\ seed \in Seeds
    /\ InitLocals

\* the sides of the wood: 3 ticks make a small wood of 1113 m2, 7 ticks a
\* large one of 12 trees, 9 ticks a large one of 20 trees
SwallowSides == {3, 7, 9}

SwallowDocs ==
    {Doc(TRUE, 0, kinds, side, ways) :
        kinds \in SeqsUpTo(NodeKinds, MaxNodes), side \in SwallowSides,
        ways \in {<<>>, <<WoodWay>>}}

\* benches, trees and a small or a large wood, run as a script or imported
InitSwallow ==
    /\ SoundFiles
    /\ osm \in SwallowDocs
    /\ scaleArg = "1.0"
    /\ mathBound \in BOOLEAN
    /\ seed = 0
    /\ InitLocals

\* ----------------------------------------------------------------- actions
Return(value) ==
    /\ pc' = "done"
    /\ result' = value

\* lines 45-58 and 396: NatureFeaturesEnhancer(osm_file, world_file, scale)
MkdirRaises ==
    \/ dir = "missing"
    \/ modelsDir = "file"
    \/ (modelsDir = "absent" /\ dir = "ro")

Construct ==
    /\ pc = "call"
    /\ IF ~ParseScale(scaleArg).ok
       THEN Return("exception") /\ UNCHANGED <<scale, modelsDir>>
       ELSE /\ scale' = ParseScale(scaleArg).val
            /\ IF MkdirRaises
               THEN Return("exception") /\ UNCHANGED modelsDir
               ELSE /\ modelsDir' = "dir"
                    /\ pc' = "exists"
                    /\ UNCHANGED result
    /\ UNCHANGED <<dir, worldExists, world, worldWritable, bakExists, bak,
                   bakWritable, writes, inputs, history, features, world_content,
                   insert_position, placements, swallowed, new_content, updated_content>>
    /\ UNCHANGED others

\* lines 201-203
CheckExists ==
    /\ pc = "exists"
    /\ IF ~worldExists
       THEN Return("False")
       ELSE pc' = "extract" /\ UNCHANGED result
    /\ UNCHANGED <<files, inputs, history, locals>>
    /\ UNCHANGED others

\* line 206
Extract ==
    /\ pc = "extract"
    /\ features' = ExtractFeatures(osm, scale)
    /\ pc' = "empty"
    /\ UNCHANGED <<result, files, inputs, history, scale, world_content, insert_position,
                   placements, swallowed, new_content, updated_content>>
    /\ UNCHANGED others

\* lines 208-210
CheckEmpty ==
    /\ pc = "empty"
    /\ IF FeatureCount(features) = 0
       THEN Return("False")
       ELSE pc' = "read" /\ UNCHANGED result
    /\ UNCHANGED <<files, inputs, history, locals>>
    /\ UNCHANGED others

\* lines 214-215
ReadWorld ==
    /\ pc = "read"
    /\ world_content' = ReadText(world)
    /\ pc' = "find"
    /\ UNCHANGED <<result, files, inputs, history, scale, features, insert_position,
                   placements, swallowed, new_content, updated_content>>
    /\ UNCHANGED others

\* lines 221-224
FindInsert ==
    /\ pc = "find"
    /\ insert_position' = RFind(world_content, CLOSING_TAG)
    /\ IF insert_position' = -1
       THEN Return("False")
       ELSE pc' = "generate" /\ UNCHANGED result
    /\ UNCHANGED <<files, inputs, history, scale, features, world_content,
                   placements, swallowed, new_content, updated_content>>
    /\ UNCHANGED others

\* lines 227-235, the OSM file left alone while the models are generated
Generate ==
    /\ pc = "generate"
    /\ LET content == GenerateContent(features, osm, scale, mathBound, seed)
       IN /\ placements' = Flatten(content)
          /\ swallowed' = [i \in 1..Len(content) |-> LatLonRaises(osm, mathBound)]
          /\ new_content' = ContentText(content)
    /\ updated_content' = UpdatedContent(world_content, insert_position, new_content')
    /\ pc' = "open_bak"
    /\ UNCHANGED <<result, files, inputs, history, scale, features, world_content,
                   insert_position>>
    /\ UNCHANGED others

\* a backup path without its ".bak" suffix: the scene file itself is opened
OpenBackupMut ==
    /\ pc = "open_bak"
    /\ IF worldWritable
       THEN /\ world' = <<>>
            /\ writes' = Append(writes, "bak")
            /\ pc' = "write_bak"
            /\ UNCHANGED result
       ELSE Return("False") /\ UNCHANGED <<world, writes>>
    /\ UNCHANGED <<dir, modelsDir, worldExists, worldWritable, bakExists, bak,
                   bakWritable, inputs, history, locals>>
    /\ UNCHANGED others

\* line 239: open(backup_file, 'w') creates or truncates, or raises (line 249)
OpenBackup ==
    /\ pc = "open_bak"
    /\ IF (bakExists /\ bakWritable) \/ (~bakExists /\ dir = "rw")
       THEN /\ bakExists' = TRUE
            /\ bak' = <<>>
            /\ bakWritable' = TRUE
            /\ writes' = Append(writes, "bak")
            /\ pc' = "write_bak"
            /\ UNCHANGED result
       ELSE Return("False") /\ UNCHANGED <<bakExists, bak, bakWritable, writes>>
    /\ UNCHANGED <<dir, modelsDir, worldExists, world, worldWritable, inputs, history, locals>>
    /\ UNCHANGED others

\* the backup written from the enhanced text
WriteBackupMut ==
    /\ pc = "write_bak"
    /\ bak' = WriteText(updated_content)
    /\ pc' = "open_world"
    /\ UNCHANGED <<result, dir, modelsDir, worldExists, world, worldWritable,
                   bakExists, bakWritable, writes, inputs, history, locals>>
    /\ UNCHANGED others

\* line 240
WriteBackup ==
    /\ pc = "write_bak"
    /\ bak' = WriteText(world_content)
    /\ pc' = "open_world"
    /\ UNCHANGED <<result, dir, modelsDir, worldExists, world, worldWritable,
                   bakExists, bakWritable, writes, inputs, history, locals>>
    /\ UNCHANGED others

\* line 243: open(self.world_file, 'w') truncates, or raises (line 249)
OpenWorld ==
    /\ pc = "open_world"
    /\ IF worldWritable
       THEN /\ world' = <<>>
            /\ writes' = Append(writes, "world")
            /\ pc' = "write_world"
            /\ UNCHANGED result
       ELSE Return("False") /\ UNCHANGED <<world, writes>>
    /\ UNCHANGED <<dir, modelsDir, worldExists, worldWritable, bakExists, bak,
                   bakWritable, inputs, history, locals>>
    /\ UNCHANGED others

\* lines 244-247
WriteWorld ==
    /\ pc = "write_world"
    /\ world' = WriteText(updated_content)
    /\ Return("True")
    /\ UNCHANGED <<dir, modelsDir, worldExists, worldWritable, bakExists, bak,
                   bakWritable, writes, inputs, history, locals>>
    /\ UNCHANGED others

\* lines 400-413: the script is started again on the scene file it has just
\* enhanced, with the same OSM document; the random generator of the new
\* process is seeded afresh
Rerun ==
    /\ pc = "done"
    /\ result = "True"
    /\ runs < MaxRuns
    /\ runs' = runs + 1
    /\ scenes' = Append(scenes, world)
    /\ pc' = "call"
    /\ result' = "none"
    /\ seed' \in Seeds
    /\ scale' = 0
    /\ features' = NoFeatures
    /\ world_content' = <<>>
    /\ insert_position' = -1
    /\ placements' = <<>>
    /\ swallowed' = <<>>
    /\ new_content' = <<>>
    /\ updated_content' = <<>>
    /\ writes' = <<>>
    /\ world0' = world
    /\ bak0' = bak
    /\ bakExists0' = bakExists
    /\ UNCHANGED <<dir, modelsDir, worldExists, world, worldWritable,
                   bakExists, bak, bakWritable, osm, scaleArg, mathBound>>
    /\ UNCHANGED others

\* the OSM file is removed or overwritten with text that is no XML at any
\* moment of the run: before extract_features reads it (line 63), before
\* _latlon_to_xy reads it again (line 368), or after the last read
OsmDamaged ==
    /\ pc # "done"
    /\ osm.parsable
    /\ osm' = [osm EXCEPT !.parsable = FALSE]
    /\ UNCHANGED <<pc, result, files, scaleArg, mathBound, seed,
                   world0, bak0, bakExists0, history, locals>>
    /\ UNCHANGED others

\* lines 227-235 with the OSM file removed or overwritten while
\* _generate_gazebo_models runs: _latlon_to_xy parses the file anew in every
\* call (line 368), one call per bench, tree and wood (lines 260, 274, 294),
\* so the first k calls read the document and the later ones, if any, fail
GenerateDamaged ==
    /\ pc = "generate"
    /\ osm.parsable
    /\ LET damaged == [osm EXCEPT !.parsable = FALSE]
           before == GenerateContent(features, osm, scale, mathBound, seed)
           after == GenerateContent(features, damaged, scale, mathBound, seed)
       IN /\ \E k \in 1..Len(before) :
                LET content == [i \in 1..Len(before) |->
                                   IF i <= k THEN before[i] ELSE after[i]]
                IN /\ placements' = Flatten(content)
                   /\ swallowed' = [i \in 1..Len(content) |->
                                       IF i <= k THEN LatLonRaises(osm, mathBound)
                                       ELSE LatLonRaises(damaged, mathBound)]
                   /\ new_content' = ContentText(content)
          /\ osm' = damaged
    /\ updated_content' = UpdatedContent(world_content, insert_position, new_content')
    /\ pc' = "open_bak"
    /\ UNCHANGED <<result, files, scaleArg, mathBound, seed, world0, bak0, bakExists0,
                   history, scale, features, world_content, insert_position>>
    /\ UNCHANGED others

Next ==
    \/ Construct
    \/ CheckExists
    \/ Extract
    \/ CheckEmpty
    \/ ReadWorld
    \/ FindInsert
    \/ Generate
    \/ OpenBackup
    \/ WriteBackup
    \/ OpenWorld
    \/ WriteWorld

Spec == Init /\ [][Next]_vars

SpecGen == InitGen /\ [][Next]_vars

SpecHeights == InitHeights /\ [][Next]_vars

SpecWoods == InitWoods /\ [][Next]_vars

SpecArea == InitArea /\ [][Next]_vars

SpecRef == InitRef /\ [][Next]_vars

SpecTags == InitTags /\ [][Next]_vars

SpecDegenerate == InitDegenerate /\ [][Next]_vars

SpecNodes == InitNodes /\ [][Next]_vars

NextRuns == Next \/ Rerun

NextSwallow == Next \/ OsmDamaged \/ GenerateDamaged

SpecSwallow == InitSwallow /\ [][NextSwallow]_vars

SpecRuns == InitRuns /\ [][NextRuns]_vars

\* lines 227-247: the run from the call of _generate_gazebo_models on
NextGenerate ==
    \/ Generate
    \/ OpenBackup
    \/ WriteBackup
    \/ OpenWorld
    \/ WriteWorld

SpecSynth == InitSynth /\ [][NextGenerate]_vars

\* ------------------------------------------------------------------ claims
HasClosingTag(text) == \E i \in 1..Len(text) : text[i] = CLOSING_TAG

\* ------------------------------------------------------------ osm_to_gazebo.py
\* what subprocess.run(..., check=True) can do: the child runs and ends with
\* a return code (the negated signal number when a signal killed it), or an
\* exception other than CalledProcessError is raised, as when the
\* interpreter cannot be launched
ReturnCodes == {0, 1, 2, 255, -9}

StepOutcomes ==
    [kind : {"exit"}, code : ReturnCodes] \cup {[kind |-> "error", code |-> 0]}

\* the exit status the operating system reports for sys.exit(code)
SysExit(code) == code % 256

\* line 139
CleanCommand == <<"clean_osm_data.py", "input_path", "cleaned_osm">>

\* lines 144-154
ConvertCommand(s, simple) ==
    <<"convert_osm_to_gazebo.py", "cleaned_osm", "world_path", "--scale", s>>
    \o (IF simple THEN <<"--simple">> ELSE <<>>)

\* lines 160-164
OptimizeCommand == <<"optimize_complete.py", "world_path">>

\* a step whose failure is reported and passed over
RunStepMut(command, description, critical, o, next) ==
    /\ commands' = Append(commands, command)
    /\ outcomes' = Append(outcomes, o)
    /\ printed' = printed \o <<description>>
    /\ wpc' = next
    /\ UNCHANGED exitStatus

\* lines 81-108: run_step, the child ending as `o` says; `next` is where
\* integrated_workflow goes on when run_step returns
RunStep(command, description, critical, o, next) ==
    /\ commands' = Append(commands, command)
    /\ outcomes' = Append(outcomes, o)
    /\ IF o.kind = "exit" /\ o.code = 0
       THEN /\ printed' = printed \o <<description, description \o " completed">>
            /\ wpc' = next
            /\ UNCHANGED exitStatus
       ELSE /\ printed' = printed \o
                   <<description,
                     IF o.kind = "exit" THEN description \o " failed with code"
                     ELSE "Error during " \o description>>
            /\ IF critical
               THEN /\ wpc' = "exited"
                    /\ exitStatus' = SysExit(IF o.kind = "exit" THEN o.code ELSE 1)
               ELSE /\ wpc' = next
                    /\ UNCHANGED exitStatus

\* line 213: argparse converts --scale with float and ends the process with
\* status 2 when it cannot; [ok, str], str what str(scale) gives
ParseScaleArg(text) ==
    CASE text = "absent" -> [ok |-> TRUE, str |-> "1.0"]
      [] text = "1.0" -> [ok |-> TRUE, str |-> "1.0"]
      [] text = "2" -> [ok |-> TRUE, str |-> "2.0"]
      [] OTHER -> [ok |-> FALSE, str |-> ""]

\* lines 191-213: main parses the command line
ParseArgs ==
    /\ wpc = "args"
    /\ IF ParseScaleArg(argv_scale).ok
       THEN /\ wscale' = ParseScaleArg(argv_scale).str
            /\ wpc' = "deps"
            /\ UNCHANGED exitStatus
       ELSE /\ wpc' = "exited"
            /\ exitStatus' = SysExit(2)
            /\ UNCHANGED wscale
    /\ UNCHANGED <<commands, outcomes, printed, simple_mode, auto_launch, gazebo,
                   surroundings, enhancer, orientation>>

\* lines 51, 60
OgrProbe == <<"ogr2ogr", "--version">>

JavaProbe == <<"java", "-version">>

\* lines 68-72
RequiredScripts == {"clean_osm_data.py", "convert_osm_to_gazebo.py", "optimize_complete.py"}

\* what a probe of lines 50-65 can do: the tool runs and ends with a return
\* code, it is not found, or another exception is raised, which neither
\* check_dependencies nor main catches
ProbeOutcomes ==
    [kind : {"exit"}, code : {0, 1}]
    \cup {[kind |-> "notfound", code |-> 0], [kind |-> "error", code |-> 0]}

ProbeFound(o) == o.kind = "exit" /\ o.code = 0

\* lines 44-78: the list check_dependencies returns
MissingDependencies(ogr, java, scripts) ==
    (IF ProbeFound(ogr) THEN <<>> ELSE <<"  - GDAL/OGR (install with: apt-get install gdal-bin python3-gdal)">>)
    \o (IF ProbeFound(java) THEN <<>> ELSE <<"  - Java (install with: apt-get install default-jre)">>)
    \o (IF "clean_osm_data.py" \in scripts THEN <<>>
        ELSE <<"  - Script clean_osm_data.py not found">>)
    \o (IF "convert_osm_to_gazebo.py" \in scripts THEN <<>>
        ELSE <<"  - Script convert_osm_to_gazebo.py not found">>)
    \o (IF "optimize_complete.py" \in scripts THEN <<>>
        ELSE <<"  - Script optimize_complete.py not found">>)

\* an exception nothing catches ends the process with status 1
Uncaught ==
    /\ wpc' = "exited"
    /\ exitStatus' = 1

\* lines 215-221 with check_dependencies, lines 44-78
CheckDependencies ==
    /\ wpc = "deps"
    /\ \E ogr \in ProbeOutcomes, java \in ProbeOutcomes, scripts \in SUBSET RequiredScripts :
          IF ogr.kind = "error"
          THEN /\ commands' = Append(commands, OgrProbe)
               /\ outcomes' = Append(outcomes, ogr)
               /\ Uncaught
               /\ UNCHANGED printed
          ELSE /\ commands' = commands \o <<OgrProbe, JavaProbe>>
               /\ outcomes' = outcomes \o <<ogr, java>>
               /\ IF java.kind = "error"
                  THEN Uncaught /\ UNCHANGED printed
                  ELSE IF MissingDependencies(ogr, java, scripts) = <<>>
                       THEN /\ wpc' = "dirs"
                            /\ UNCHANGED <<exitStatus, printed>>
                       ELSE /\ printed' = printed \o <<"Missing dependencies:">>
                                             \o MissingDependencies(ogr, java, scripts)
                            /\ wpc' = "exited"
                            /\ exitStatus' = SysExit(1)
    /\ UNCHANGED <<simple_mode, auto_launch, wscale, gazebo, surroundings,
                   enhancer, orientation>>

\* lines 126, 135: mkdir(parents=True, exist_ok=True) raises when the path is
\* a file or cannot be made
OutputMkdirRaises == outputDir \in {"file", "blocked"}

MeshMkdirRaises == meshDir = "file" \/ (meshDir = "absent" /\ outputDir = "ro")

\* lines 113-135: the paths and the two directories
MakeDirs ==
    /\ wpc = "dirs"
    /\ IF OutputMkdirRaises
       THEN Uncaught /\ UNCHANGED <<outputDir, meshDir>>
       ELSE /\ outputDir' = (IF outputDir = "absent" THEN "dir" ELSE outputDir)
            /\ IF MeshMkdirRaises
               THEN Uncaught /\ UNCHANGED meshDir
               ELSE /\ meshDir' = "dir"
                    /\ wpc' = "clean"
                    /\ UNCHANGED exitStatus
    /\ UNCHANGED <<commands, outcomes, printed, simple_mode, auto_launch, wscale,
                   gazebo, argv_scale, enhancer, orientation>>

\* lines 137-141: step 1
CleanStep ==
    /\ wpc = "clean"
    /\ \E o \in StepOutcomes :
          RunStep(CleanCommand, "Cleaning OSM data with GDAL/OGR", TRUE, o, "convert")
    /\ UNCHANGED <<simple_mode, auto_launch, wscale, gazebo, surroundings,
                   enhancer, orientation>>

\* lines 143-156: step 2
ConvertStep ==
    /\ wpc = "convert"
    /\ \E o \in StepOutcomes :
          RunStep(ConvertCommand(wscale, simple_mode),
                  "Converting OSM to Gazebo world", TRUE, o, "optimize")
    /\ UNCHANGED <<simple_mode, auto_launch, wscale, gazebo, surroundings,
                   enhancer, orientation>>

\* lines 158-166: step 3
OptimizeStep ==
    /\ wpc = "optimize"
    /\ \E o \in StepOutcomes :
          RunStep(OptimizeCommand, "Optimizing world", TRUE, o, "summary")
    /\ UNCHANGED <<simple_mode, auto_launch, wscale, gazebo, surroundings,
                   enhancer, orientation>>

\* lines 168-173: the success summary
PrintSummary ==
    /\ wpc = "summary"
    /\ printed' = Append(printed, "Integrated workflow completed successfully!")
    /\ wpc' = "launch"
    /\ UNCHANGED <<commands, outcomes, exitStatus,
                   simple_mode, auto_launch, wscale, gazebo, surroundings,
                   enhancer, orientation>>

\* lines 175-188: Gazebo is launched, which may fail, or the command to
\* launch it is printed; integrated_workflow and main return
LaunchGazebo ==
    /\ wpc = "launch"
    /\ IF auto_launch
       THEN gazebo' \in {"launched", "failed"}
       ELSE gazebo' = "hint"
    /\ wpc' = "returned"
    /\ exitStatus' = 0
    /\ UNCHANGED <<commands, outcomes, printed,
                   simple_mode, auto_launch, wscale, surroundings,
                   enhancer, orientation>>

NextWorkflow ==
    \/ ParseArgs
    \/ CheckDependencies
    \/ MakeDirs
    \/ CleanStep
    \/ ConvertStep
    \/ OptimizeStep
    \/ PrintSummary
    \/ LaunchGazebo

\* the script is run with a command line (line 234), or integrated_workflow
\* is called with its arguments; the enhancer is not run
InitWorkflow ==
    /\ \/ /\ wpc = "args"
          /\ argv_scale \in {"absent", "1.0", "2", "abc"}
          /\ wscale = ""
       \/ /\ wpc = "dirs"
          /\ argv_scale = "absent"
          /\ wscale \in {"1.0", "2.0"}
    /\ commands = <<>>
    /\ outcomes = <<>>
    /\ exitStatus = -1
    /\ printed = <<>>
    /\ simple_mode \in BOOLEAN
    /\ auto_launch \in BOOLEAN
    /\ gazebo = "none"
    /\ outputDir \in {"absent", "blocked", "file", "dir", "ro"}
    /\ meshDir \in (IF outputDir \in {"dir", "ro"} THEN {"absent", "dir", "file"}
                    ELSE {"absent"})
    /\ EnhancerIdle
    /\ OrientationIdle

SpecWorkflow == InitWorkflow /\ [][NextWorkflow]_vars

\* ---------------------------------------------------------- fix_orientation.py
\* A world text is a sequence of tokens: tags, and the texts between them.
OSM_MODEL == "<model name=\"osm_environment\">"

\* the line that follows the opening tag in the worlds write_world_file
\* writes, and the same element indented otherwise
STATIC == "\n      <static>true</static>"

STATIC_OTHER == "\n    <static>true</static>"

POSE_COMMENT ==
    "\n      <!-- Rotate mesh to horizontal orientation (OSM meshes are often vertical) -->"

POSE_OPEN == "<pose>"

POSE_CLOSE == "</pose>"

MODEL_CLOSE == "</model>"

\* str.find from a position: the first index at or after `from`, 0 for none
FindFrom(text, tok, from) ==
    LET hits == {i \in from..Len(text) : text[i] = tok}
    IN IF hits = {} THEN 0 ELSE CHOOSE i \in hits : \A j \in hits : i <= j

\* the `in` operator on a text
Holds(text, tok) == FindFrom(text, tok, 1) # 0

\* line 49
PoseContent(r) == "0 0 0 " \o r

\* lines 62-69: str.replace of the opening tag followed by the static line
RECURSIVE AddPose(_, _)
AddPose(text, r) ==
    IF text = <<>> THEN <<>>
    ELSE IF Len(text) >= 2 /\ text[1] = OSM_MODEL /\ text[2] = STATIC
         THEN <<OSM_MODEL, STATIC, POSE_COMMENT, POSE_OPEN, PoseContent(r), POSE_CLOSE>>
              \o AddPose(SubSeq(text, 3, Len(text)), r)
         ELSE <<Head(text)>> \o AddPose(Tail(text), r)

\* lines 33-55: the pose of the section from the opening tag to the first
\* closing model tag after it is replaced, when the section has one
UpdatePose(text, r) ==
    LET model_start == FindFrom(text, OSM_MODEL, 1)
        model_section_end == FindFrom(text, MODEL_CLOSE, model_start)
    IN IF model_section_end = 0 THEN text
       ELSE LET model_section == SubSeq(text, model_start, model_section_end)
                pose_start == FindFrom(model_section, POSE_OPEN, 1)
                pose_end == FindFrom(model_section, POSE_CLOSE, 1)
            IN IF pose_start = 0 \/ pose_end = 0 THEN text
               ELSE SubSeq(text, 1, model_start - 1)
                    \o SubSeq(model_section, 1, pose_start)
                    \o <<PoseContent(r)>>
                    \o SubSeq(model_section, pose_end, Len(model_section))
                    \o SubSeq(text, model_section_end + 1, Len(text))

\* lines 29-72
FixedContent(text, r) ==
    IF Holds(text, OSM_MODEL) /\ Holds(text, POSE_OPEN)
    THEN UpdatePose(text, r)
    ELSE AddPose(text, r)

\* convert_osm_to_gazebo.py lines 177-190: the sun, with its pose
Light(posed) ==
    <<"<light type=\"directional\" name=\"sun\">">>
    \o (IF posed THEN <<POSE_OPEN, "0 0 10 0 0 0", POSE_CLOSE>> ELSE <<>>)
    \o <<"</light>">>

\* convert_osm_to_gazebo.py lines 192-231
GroundPlane == <<"<model name=\"ground_plane\">", STATIC, MODEL_CLOSE>>

\* convert_osm_to_gazebo.py lines 233-263: the environment block, with the
\* static line and the pose as given
Environment(static, pose) ==
    <<OSM_MODEL>> \o static \o pose
    \o <<"<link name=\"osm_mesh_link\">", "</link>", MODEL_CLOSE>>

\* convert_osm_to_gazebo.py lines 140-266: the world write_world_file writes
WorldFile ==
    <<"<world name=\"osm_world\">">> \o Light(TRUE) \o GroundPlane
    \o Environment(<<STATIC>>, <<POSE_COMMENT, POSE_OPEN, "0 0 0 1.5708 0 0", POSE_CLOSE>>)
    \o <<"</world>">>

\* a model added to the world after the environment
Robot(posed) ==
    <<"<model name=\"robot\">">>
    \o (IF posed THEN <<POSE_OPEN, "1 2 0 0 0 0", POSE_CLOSE>> ELSE <<>>)
    \o <<MODEL_CLOSE>>

\* worlds as write_world_file writes them and as edited afterwards: with or
\* without the sun and its pose, the ground plane, the static line, the pose
\* of the environment, a further model; and worlds without the environment
OrientationWorlds ==
    {WorldFile}
    \cup {<<"<world name=\"osm_world\">">> \o before \o Environment(static, pose)
              \o after \o <<"</world>">> :
            before \in {<<>>, Light(FALSE), Light(TRUE), GroundPlane,
                        Light(TRUE) \o GroundPlane},
            static \in {<<>>, <<STATIC>>, <<STATIC_OTHER>>},
            pose \in {<<>>, <<POSE_OPEN, "0 0 0 1.5708 0 0", POSE_CLOSE>>,
                      <<POSE_COMMENT, POSE_OPEN, "0 0 0 0 0 1.5708", POSE_CLOSE>>},
            after \in {<<>>, Robot(FALSE), Robot(TRUE)}}
    \cup {<<"<world name=\"osm_world\">">> \o Light(posed) \o GroundPlane \o <<"</world>">> :
            posed \in BOOLEAN}

Rotations == {"1.5708 0 0", "0 0 1.5708"}

\* line 26
ReadWorldText ==
    /\ fpc = "read"
    /\ fix_content' = ReadText(world_path)
    /\ fpc' = "fix"
    /\ UNCHANGED <<world_path, rotation, world_found, enhancer, workflow>>

\* lines 29-72
FixPose ==
    /\ fpc = "fix"
    /\ fix_content' = FixedContent(fix_content, rotation)
    /\ fpc' = "write"
    /\ UNCHANGED <<world_path, rotation, world_found, enhancer, workflow>>

\* lines 21-22, 74: the output path is the input path
WriteFixed ==
    /\ fpc = "write"
    /\ world_path' = WriteText(fix_content)
    /\ fpc' = "done"
    /\ UNCHANGED <<fix_content, rotation, world_found, enhancer, workflow>>

NextOrientation ==
    \/ ReadWorldText
    \/ FixPose
    \/ WriteFixed

InitOrientation ==
    /\ fpc = "read"
    /\ world_path \in OrientationWorlds
    /\ fix_content = <<>>
    /\ rotation \in Rotations
    /\ world_found = world_path
    /\ EnhancerIdle
    /\ WorkflowIdle

SpecOrientation == InitOrientation /\ [][NextOrientation]_vars

\* enhance_world_file ran to its return
Returned == pc = "done" /\ result \in {"True", "False"}

Succeeded == pc = "done" /\ result = "True"

\* extract_features has returned in this run
Extracted ==
    \/ pc \in {"empty", "read", "find", "generate", "open_bak", "write_bak",
               "open_world", "write_world"}
    \/ (Returned /\ worldExists)

FilesUntouched ==
    /\ writes = <<>>
    /\ world = world0
    /\ bak = bak0
    /\ bakExists = bakExists0

\* C1: with the scene file present, at least one feature extracted and no
\* closing tag in the scene text, the run returns False, never writes the
\* scene file and never creates or overwrites the backup.
C1_NoClosingTagNoWrite ==
    (Extracted /\ features # NoFeatures /\ ~HasClosingTag(world0))
        => /\ FilesUntouched
           /\ pc \in {"empty", "read", "find", "done"}
           /\ (pc = "done" => result = "False")

C1_Witness ==
    /\ Returned
    /\ result = "False"
    /\ features # NoFeatures
    /\ world0 # <<>>
    /\ world_content = ReadText(world0)
    /\ insert_position = -1
    /\ bakExists0

\* C2: when extraction yields no bench, tree or wood, the scene file and the
\* backup stay as they were, the scene file is not even read, and this is so
\* whether or not the scene file has a closing tag.
C2_NoFeaturesNoWrite ==
    (Extracted /\ features = NoFeatures)
        => /\ FilesUntouched
           /\ world_content = <<>>
           /\ pc \in {"empty", "done"}
           /\ (pc = "done" => result = "False")

C2_Witness ==
    /\ Returned
    /\ worldExists
    /\ ~ExtractRaises(osm)
    /\ features = NoFeatures
    /\ HasClosingTag(world0)
    /\ bakExists0
    /\ worldWritable

\* C3: after every successful run the backup holds exactly the scene file's
\* content as it was before the run, and the backup was opened for writing
\* before the scene file was.
C3_BackupIsOriginal ==
    Succeeded => /\ bakExists
                 /\ bak = world0
                 /\ writes = <<"bak", "world">>

\* C4: no step before the final overwrite changes the scene file: wherever
\* the run stands, or stops, before line 243 the file holds its pre-run content.
C4_OnlyFinalOverwrite ==
    (pc # "write_world" /\ ~Succeeded)
        => /\ world = world0
           /\ "world" \notin {writes[i] : i \in 1..Len(writes)}

C4_Witness ==
    /\ pc = "open_world"
    /\ writes = <<"bak">>
    /\ bak = world_content
    /\ bak # bak0
    /\ world = world0
    /\ updated_content # world0

\* C5: on success the new scene file is the original content with the one
\* block (marker, then the generated entries) inserted right before the last
\* closing tag, every original character kept in order.
C5_InsertedBeforeLastTag ==
    Succeeded =>
        LET pos == RFind(world0, CLOSING_TAG)
        IN /\ pos >= 0
           /\ world = Before(world0, pos) \o <<"LF", MARKER, "LF">> \o new_content
                      \o After(world0, pos)

\* C6: the top-level call always ends by returning a boolean: no exception
\* escapes it, whatever the input.
C6_NoExceptionEscapes ==
    pc = "done" => result \in {"True", "False"}

\* C7: on an unparsable OSM document extract_features returns three empty
\* lists and the run is skipped: neither the scene file nor a backup is written.
C7_UnparsableSkipsRun ==
    (Extracted /\ ~osm.parsable)
        => /\ features = NoFeatures
           /\ FilesUntouched
           /\ pc \in {"empty", "done"}
           /\ (pc = "done" => result = "False")

C7_Witness ==
    /\ Returned
    /\ worldExists
    /\ ~osm.parsable
    /\ features = NoFeatures
    /\ HasClosingTag(world0)
    /\ worldWritable

\* C8: the status returned when no features are found differs from the
\* failure status (False) returned for a missing scene file or closing tag.
C8_NoFeaturesNotFailure ==
    (Returned /\ worldExists /\ ~ExtractRaises(osm) /\ features = NoFeatures)
        => result # "False"

\* C9: within one run's output all placement names are distinct, and they
\* follow bench_<i>, tree_<i>, wood_<i> and tree_wood_<i>_<j> with 1-based
\* indices into the bench, tree and wood lists.
C9_NamesUnique ==
    (pc \in {"open_bak", "write_bak", "open_world", "write_world"} \/ Succeeded)
        => LET nb == Len(features.benches)
               nt == Len(features.trees)
               nw == Len(features.woods)
           IN /\ \A a, b \in 1..Len(placements) :
                    a # b => placements[a].name # placements[b].name
              /\ \A i \in 1..nb : placements[i].name = "bench_" \o ToString(i)
              /\ \A i \in 1..nt : placements[nb + i].name = "tree_" \o ToString(i)
              /\ \A a \in (nb + nt + 1)..Len(placements) :
                    \E i \in 1..nw :
                       \/ /\ ~IsLargeWood(features.woods[i])
                          /\ placements[a].name = "wood_" \o ToString(i)
                       \/ /\ IsLargeWood(features.woods[i])
                          /\ \E j \in 1..MaxTrees :
                                placements[a].name =
                                    "tree_wood_" \o ToString(i) \o "_" \o ToString(j)

C9_Witness ==
    /\ Succeeded
    /\ Len(features.benches) >= 2
    /\ Len(features.trees) >= 1
    /\ Len(features.woods) = 2
    /\ IsLargeWood(features.woods[1])
    /\ IsLargeWood(features.woods[2])
    /\ \E a \in 1..Len(placements) : placements[a].name = "tree_wood_2_20"

\* C10: every placement references one of the three model URIs: a bench the
\* bench model, every tree and wood placement one of the two tree models.
C10_UriCatalog ==
    (pc \in {"open_bak", "write_bak", "open_world", "write_world"} \/ Succeeded)
        => \A a \in 1..Len(placements) :
              IF a <= Len(features.benches)
              THEN placements[a].uri = BENCH_MODEL
              ELSE placements[a].uri \in {TREE_MODEL_DECIDUOUS, TREE_MODEL_CONIFEROUS}

C10_Witness ==
    /\ Succeeded
    /\ \E a \in 1..Len(placements) : placements[a].uri = BENCH_MODEL
    /\ \E a \in 1..Len(placements) :
          placements[a].kind = "tree" /\ placements[a].uri = TREE_MODEL_CONIFEROUS
    /\ \E a \in 1..Len(placements) :
          placements[a].kind = "wood" /\ placements[a].uri = TREE_MODEL_DECIDUOUS
    /\ \E a \in 1..Len(placements) :
          placements[a].kind = "wood_tree" /\ placements[a].uri = TREE_MODEL_CONIFEROUS

\* a placement that carries a <scale> element
Scaled(p) == p.has_scale

\* C11: the scale of every placement is greater than zero, for individual
\* trees of every height a `height` tag can parse to, for the sub-placements
\* of a large wood and for the placement of a small wood.
C11_ScalePositive ==
    \A a \in 1..Len(placements) :
        Scaled(placements[a])
            => \A c \in 1..3 : placements[a].scale[c] > 0

\* _generate_gazebo_models has returned in this run
Generated ==
    pc \in {"open_bak", "write_bak", "open_world", "write_world"} \/ Succeeded

\* the placements generated for wood i (1-based in features.woods)
SubPlacements(i) ==
    {a \in 1..Len(placements) :
        /\ placements[a].kind = "wood_tree"
        /\ \E j \in 0..Len(placements) : placements[a].name = WoodTreeName(i - 1, j)}

Markers(i) ==
    {a \in 1..Len(placements) :
        placements[a].kind = "wood" /\ placements[a].name = WoodName(i - 1)}

\* C12: a wood of more than 5000 m2 gets min(20, floor(area / 500))
\* placements, never more than 20, and no wood_<i> marker; with 10,000 m2
\* or more that is exactly 20 tree placements.
C12_LargeWoodCount ==
    Generated =>
        \A i \in 1..Len(features.woods) :
            LET area == features.woods[i].area
                n == Cardinality(SubPlacements(i))
            IN area > 50000000 =>
                  /\ n = (IF area \div 5000000 < 20 THEN area \div 5000000 ELSE 20)
                  /\ n <= 20
                  /\ (area >= 100000000 => n = 20)
                  /\ Markers(i) = {}

\* a landuse=forest way of about 10,000 m2 with its 20 trees, after a square
\* wood of the same size
C12_Witness ==
    /\ Succeeded
    /\ Len(osm.ways) = 2
    /\ HasTag(osm.ways[2].tags, "landuse", "forest")
    /\ Len(features.woods) = 2
    /\ features.woods[2].area \in 100000000..101000000
    /\ Cardinality(SubPlacements(2)) = 20
    /\ Markers(2) = {}
    /\ Len(placements) = 40

\* C13: a wood of at most 5000 m2, 5000 included, gets exactly one
\* placement, at the projection of the unweighted mean of its vertices'
\* latitudes and longitudes, with scale clamp(area / 1000, 1.0, 2.0), which
\* lies in [1.0, 2.0].
C13_SmallWoodPlacement ==
    Generated =>
        \A i \in 1..Len(features.woods) :
            LET wood == features.woods[i]
                n == Len(wood.nodes)
                mean_lat == (SumSeq([k \in 1..n |-> wood.nodes[k][1]]) * 1000) \div n
                mean_lon == (SumSeq([k \in 1..n |-> wood.nodes[k][2]]) * 1000) \div n
                xy == LatLonToXY(mean_lat, mean_lon, osm, scale, mathBound)
                ratio == wood.area \div 100000
            IN wood.area <= 50000000 =>
                  /\ Cardinality(Markers(i)) = 1
                  /\ SubPlacements(i) = {}
                  /\ \A a \in Markers(i) :
                        /\ placements[a].pose = <<xy[1], xy[2], 0, 0, 0, 0>>
                        /\ placements[a].has_scale
                        /\ placements[a].scale[1] =
                              (IF ratio < 100 THEN 100
                               ELSE IF ratio > 200 THEN 200 ELSE ratio)
                        /\ placements[a].scale[1] \in 100..200

\* a wood of 1500 m2 placed with scale 1.5 away from the origin, and after it
\* a wood of exactly 5000 m2 placed once with scale 2.0
C13_Witness ==
    /\ Succeeded
    /\ Len(features.woods) = 2
    /\ features.woods[1].area = 15000000
    /\ features.woods[2].area = 50000000
    /\ Len(placements) = 2
    /\ placements[1].name = "wood_1"
    /\ placements[1].scale = <<150, 150, 150>>
    /\ placements[1].pose[1] > 0
    /\ placements[1].pose[2] > 0
    /\ placements[2].name = "wood_2"
    /\ placements[2].scale = <<200, 200, 200>>

\* C14: in a large mixed wood the sub-placements alternate by 0-based index,
\* even deciduous and odd coniferous; in a large deciduous or coniferous wood
\* every sub-placement is of that class; a small wood uses the deciduous
\* model when its class is deciduous or mixed and the coniferous one otherwise.
C14_SpeciesPolicy ==
    Generated =>
        \A i \in 1..Len(features.woods) :
            LET wood == features.woods[i] IN
            /\ \A a \in SubPlacements(i) : \A j \in 0..Len(placements) :
                  placements[a].name = WoodTreeName(i - 1, j) =>
                     placements[a].uri =
                        (CASE wood.type = "mixed" ->
                                 (IF j % 2 = 0 THEN TREE_MODEL_DECIDUOUS
                                  ELSE TREE_MODEL_CONIFEROUS)
                           [] wood.type = "deciduous" -> TREE_MODEL_DECIDUOUS
                           [] wood.type = "coniferous" -> TREE_MODEL_CONIFEROUS)
            /\ \A a \in Markers(i) :
                  placements[a].uri =
                     (IF wood.type \in {"deciduous", "mixed"}
                      THEN TREE_MODEL_DECIDUOUS ELSE TREE_MODEL_CONIFEROUS)

\* a small mixed wood with the deciduous model, then a large mixed wood whose
\* eleven sub-placements start deciduous, coniferous, deciduous
C14_Witness ==
    /\ Succeeded
    /\ Len(features.woods) = 2
    /\ features.woods[1].type = "mixed"
    /\ features.woods[2].type = "mixed"
    /\ Len(placements) = 12
    /\ placements[1].kind = "wood"
    /\ placements[1].uri = TREE_MODEL_DECIDUOUS
    /\ placements[2].name = "tree_wood_2_1"
    /\ placements[2].uri = TREE_MODEL_DECIDUOUS
    /\ placements[3].uri = TREE_MODEL_CONIFEROUS
    /\ placements[4].uri = TREE_MODEL_DECIDUOUS

\* C15: for every vertex sequence of three or more vertices the computed
\* area is at least zero, and the sequence walked backwards gets the same
\* area.
C15_AreaOrientation ==
    Extracted =>
        /\ \A i \in 1..Len(features.woods) : features.woods[i].area >= 0
        /\ \A i, j \in 1..Len(features.woods) :
              features.woods[i].nodes = Reverse(features.woods[j].nodes)
                 => features.woods[i].area = features.woods[j].area

\* a concave four-vertex walk through the inner node and its reversal, both
\* with the same area of more than 500 m2
C15_Witness ==
    /\ Extracted
    /\ Len(features.woods) = 2
    /\ features.woods[1].nodes = <<<<0, 0>>, <<1, 2>>, <<0, 5>>, <<5, 5>>>>
    /\ features.woods[2].nodes = Reverse(features.woods[1].nodes)
    /\ features.woods[1].area > 5000000
    /\ features.woods[1].area = features.woods[2].area

\* the shoelace area, in cm2, of a sequence of projected points <<x, y>>
ShoelaceArea(xy) ==
    LET n == Len(xy)
        nxt(i) == (i % n) + 1
    IN Abs(SumSeq([i \in 1..n |-> xy[i][1] * xy[nxt(i)][2]
                                     - xy[nxt(i)][1] * xy[i][2]])) \div 2

\* the _latlon_to_xy images of the vertices of a wood
Images(wood) ==
    [k \in 1..Len(wood.nodes) |->
        LatLonToXY(wood.nodes[k][1] * 1000, wood.nodes[k][2] * 1000,
                   osm, scale, mathBound)]

\* C16: the area of every wood equals the shoelace area of its vertices as
\* _latlon_to_xy projects them, for every polygon and every latitude.
C16_AreaOfProjection ==
    Extracted =>
        \A i \in 1..Len(features.woods) :
            features.woods[i].area = ShoelaceArea(Images(features.woods[i]))

AtOrigin(p) == p.pose = <<0, 0, 0, 0, 0, 0>>

\* C17: the first node of the document is the reference point: whatever is
\* placed for it lies at local (0, 0), for every scale; a document whose
\* only node is a bench yields exactly one placement, bench_1 with the bench
\* model at (0, 0).
C17_ReferenceAtOrigin ==
    Generated =>
        /\ HasBench(osm.nodes[1]) =>
              \E a \in 1..Len(placements) :
                  placements[a].name = "bench_1" /\ AtOrigin(placements[a])
        /\ HasTree(osm.nodes[1]) =>
              \E a \in 1..Len(placements) :
                  placements[a].name = "tree_1" /\ AtOrigin(placements[a])
        /\ (Len(osm.nodes) = 1 /\ osm.ways = <<>> /\ ~HasTree(osm.nodes[1])) =>
              /\ Len(placements) = 1
              /\ placements[1].name = "bench_1"
              /\ placements[1].kind = "bench"
              /\ placements[1].uri = BENCH_MODEL
              /\ AtOrigin(placements[1])

\* the only node, a bench away from the base of the map, at scale 2
C17_Witness ==
    /\ Succeeded
    /\ mathBound
    /\ scale = 2
    /\ Len(osm.nodes) = 1
    /\ osm.nodes[1].lat = 3
    /\ osm.nodes[1].lon = -2
    /\ osm.nodes[1].tags = <<Tag("amenity", "bench")>>
    /\ Len(placements) = 1
    /\ placements[1].name = "bench_1"
    /\ AtOrigin(placements[1])

\* way w of the document is tagged natural=wood and leaf_type=needleleaved
\* and walks the four corners of a square of 9 or 10 ticks (100 m or 111 m)
\* on the equator, at scale 1.0; every way of these documents is a wood, so
\* wood w comes from way w
HundredMetreSquare(w) ==
    /\ osm.baseLat = 0
    /\ scale = 1
    /\ w \in 1..Len(osm.ways)
    /\ osm.ways[w].tags = <<Tag("natural", "wood"), Tag("leaf_type", "needleleaved")>>
    /\ osm.ways[w].refs = <<101, 102, 103, 104>>
    /\ osm.nodes[3].lat \in {9, 10}
    /\ Len(features.woods) = Len(osm.ways)

\* C18 as stated: a natural=wood, leaf_type=needleleaved square of side about
\* 100 m at scale 1.0 is a small wood (area below 5000 m2) and produces
\* exactly one placement, with the coniferous model and scale
\* clamp(area / 1000, 1, 2).
C18_SquareIsSmallWood ==
    Generated =>
        \A w \in 1..Len(osm.ways) :
            HundredMetreSquare(w) =>
                /\ features.woods[w].area < 50000000
                /\ SubPlacements(w) = {}
                /\ Cardinality(Markers(w)) = 1
                /\ \A a \in Markers(w) :
                      /\ placements[a].uri = TREE_MODEL_CONIFEROUS
                      /\ placements[a].scale[1] =
                            Min(200, Max(100, features.woods[w].area \div 100000))

\* C18 amended: such a square covers 10,000 m2 or more, so it is a large
\* wood: it gets no wood_<i> marker but 20 tree placements, every one with
\* the coniferous model and a scale between 0.8 and 1.3.
C18_SquareIsLargeWood ==
    Generated =>
        \A w \in 1..Len(osm.ways) :
            HundredMetreSquare(w) =>
                /\ features.woods[w].area >= 100000000
                /\ Markers(w) = {}
                /\ Cardinality(SubPlacements(w)) = 20
                /\ \A a \in SubPlacements(w) :
                      /\ placements[a].uri = TREE_MODEL_CONIFEROUS
                      /\ placements[a].scale[1] \in 80..130

C18_Witness ==
    /\ Succeeded
    /\ Len(osm.ways) = 1
    /\ HundredMetreSquare(1)
    /\ osm.nodes[3].lat = 9
    /\ features.woods[1].type = "coniferous"
    /\ Len(placements) = 20
    /\ placements[20].name = "tree_wood_1_20"
    /\ placements[20].uri = TREE_MODEL_CONIFEROUS

\* the way carries natural=wood or landuse=forest, at any position
CarriesWoodTag(way) ==
    \E t \in 1..Len(way.tags) :
        \/ (way.tags[t].k = "natural" /\ way.tags[t].v = "wood")
        \/ (way.tags[t].k = "landuse" /\ way.tags[t].v = "forest")

\* the ways that carry one of the two tags, in document order; each way of
\* these documents resolves three or more vertices
TaggedWays == SelectSeq(osm.ways, CarriesWoodTag)

\* C19: a way becomes a wood if and only if it carries natural=wood or
\* landuse=forest; where the tag stands among the way's tags does not
\* matter, and species tags (`wood`, `leaf_type`) on a way without either
\* tag never make it a wood.
C19_WoodIffTagged ==
    (Extracted /\ ~ExtractRaises(osm)) =>
        /\ Len(features.woods) = Len(TaggedWays)
        /\ \A i \in 1..Len(features.woods) :
              features.woods[i].nodes = WoodNodes(TaggedWays[i].refs, osm.nodes)

\* after a wood, a way with two species tags and natural=forest: one wood only
C19_Witness ==
    /\ Succeeded
    /\ Len(osm.ways) = 2
    /\ osm.ways[2].tags = <<Tag("wood", "deciduous"), Tag("leaf_type", "needleleaved"),
                            Tag("natural", "forest")>>
    /\ Len(features.woods) = 1
    /\ Len(placements) = 1

\* the classes named by the recognised values on the species keys of a way
SpeciesClasses(way) ==
    {c \in {"deciduous", "coniferous", "mixed"} :
        \E t \in 1..Len(way.tags) :
            /\ way.tags[t].k \in {"wood", "leaf_type"}
            /\ \/ (c = "deciduous" /\ way.tags[t].v \in {"deciduous", "broadleaved"})
               \/ (c = "coniferous" /\ way.tags[t].v \in {"coniferous", "needleleaved"})
               \/ (c = "mixed" /\ way.tags[t].v = "mixed")}

\* C20: the class of a wood comes from its `wood` and `leaf_type` tags:
\* deciduous or broadleaved gives deciduous, coniferous or needleleaved gives
\* coniferous, mixed gives mixed, and without such a tag, or with
\* unrecognised values only, the class is the default mixed; it is always one
\* of the three.
C20_SpeciesClass ==
    (Extracted /\ ~ExtractRaises(osm) /\ Len(features.woods) = Len(TaggedWays)) =>
        \A i \in 1..Len(features.woods) :
            LET classes == SpeciesClasses(TaggedWays[i])
                type == features.woods[i].type
            IN /\ type \in {"deciduous", "coniferous", "mixed"}
               /\ classes = {} => type = "mixed"
               /\ classes # {} => type \in classes

\* a way with broadleaved and then an unknown value stays deciduous, after a
\* wood without species tags that got the default
C20_Witness ==
    /\ Succeeded
    /\ Len(osm.ways) = 2
    /\ osm.ways[1].tags = <<Tag("natural", "wood")>>
    /\ osm.ways[2].tags = <<Tag("leaf_type", "broadleaved"), Tag("landuse", "forest"),
                            Tag("leaf_type", "palm")>>
    /\ Len(features.woods) = 2
    /\ features.woods[1].type = "mixed"
    /\ features.woods[2].type = "deciduous"

\* every lat and lon of the document is a number
AllNumeric == \A i \in 1..Len(osm.nodes) : osm.nodes[i].numeric

\* the (lat, lon) of the references of a way that name a node of the
\* document, in way order (node ids are unique in these documents)
Resolved(way) ==
    LET known(ref) == \E i \in 1..Len(osm.nodes) : osm.nodes[i].id = ref
        at(ref) == LET i == CHOOSE i \in 1..Len(osm.nodes) : osm.nodes[i].id = ref
                   IN <<osm.nodes[i].lat, osm.nodes[i].lon>>
        refs == SelectSeq(way.refs, known)
    IN [k \in 1..Len(refs) |-> at(refs[k])]

KeptWay(way) == CarriesWoodTag(way) /\ Len(Resolved(way)) >= 3

KeptWays == SelectSeq(osm.ways, KeptWay)

\* C21: each reference of a wood way that resolves contributes its (lat, lon)
\* in way order and each one that does not resolve is skipped without error;
\* the way is kept if and only if three or more references resolved, and a
\* discarded way does not abort the extraction of the other features.
C21_UnresolvedSkipped ==
    (Extracted /\ osm.parsable /\ AllNumeric) =>
        /\ Len(features.woods) = Len(KeptWays)
        /\ \A i \in 1..Len(features.woods) :
              features.woods[i].nodes = Resolved(KeptWays[i])
        /\ features.benches = Benches(osm.nodes)
        /\ features.trees = IndividualTrees(osm.nodes)

CarriesTag(node, k, v) ==
    \E t \in 1..Len(node.tags) : node.tags[t].k = k /\ node.tags[t].v = v

IsBenchNode(node) == CarriesTag(node, "amenity", "bench")

IsTreeNode(node) == CarriesTag(node, "natural", "tree")

BenchNodes == SelectSeq(osm.nodes, IsBenchNode)

TreeNodes == SelectSeq(osm.nodes, IsTreeNode)

\* the heights the `height` tags of a node allow: 5.0 when there is none or
\* one does not parse, and what each of the others parses to
AllowedHeights(node) ==
    LET hs == {t \in 1..Len(node.tags) : node.tags[t].k = "height"}
    IN {ParseFloat(node.tags[t].v).val : t \in {u \in hs : ParseFloat(node.tags[u].v).ok}}
       \cup (IF hs = {} \/ \E t \in hs : ~ParseFloat(node.tags[t].v).ok
             THEN {50} ELSE {})

\* C22: a bench is emitted exactly for the nodes tagged amenity=bench and a
\* tree exactly for the nodes tagged natural=tree; a tree is coniferous
\* exactly when its node is tagged leaf_type=needleleaved, deciduous
\* otherwise; its height is what the `height` tag parses to, or 5.0 when the
\* tag is absent or is not a number.
C22_NodeClassification ==
    (Extracted /\ ~ExtractRaises(osm)) =>
        /\ Len(features.benches) = Len(BenchNodes)
        /\ \A i \in 1..Len(features.benches) :
              features.benches[i] = [lat |-> BenchNodes[i].lat, lon |-> BenchNodes[i].lon]
        /\ Len(features.trees) = Len(TreeNodes)
        /\ \A i \in 1..Len(features.trees) :
              /\ features.trees[i].lat = TreeNodes[i].lat
              /\ features.trees[i].lon = TreeNodes[i].lon
              /\ features.trees[i].type =
                    (IF CarriesTag(TreeNodes[i], "leaf_type", "needleleaved")
                     THEN "coniferous" ELSE "deciduous")
              /\ features.trees[i].height \in AllowedHeights(TreeNodes[i])

\* a node that is bench and tree with height 10, then a tree whose height is
\* not a number
C22_Witness ==
    /\ Extracted
    /\ Len(osm.nodes) = 6
    /\ osm.nodes[1].tags = <<Tag("amenity", "bench"), Tag("natural", "tree"),
                             Tag("height", "10")>>
    /\ osm.nodes[2].tags = <<Tag("natural", "tree"), Tag("height", "abc")>>
    /\ Len(features.benches) = 1
    /\ Len(features.trees) = 2
    /\ features.trees[1].height = 100
    /\ features.trees[2].height = 50
    /\ features.trees[2].type = "deciduous"

\* C23: every placement is written as a named model entry flagged static,
\* with a pose whose z and three rotations are zero, and carries a scale
\* element, of three equal components, exactly when its scale differs from 1.
C23_ScaleOnlyWhenNotOne ==
    Generated =>
        \A a \in 1..Len(placements) :
            LET p == placements[a] IN
            /\ p.name # ""
            /\ p.static
            /\ \A c \in 3..6 : p.pose[c] = 0
            /\ p.scale[1] = p.scale[2] /\ p.scale[2] = p.scale[3]
            /\ p.has_scale <=> (p.scale[1] # 100)

\* the sub-placement of wood i with 0-based index j
SubPlacement(i, j) ==
    placements[CHOOSE a \in SubPlacements(i) : placements[a].name = WoodTreeName(i - 1, j)]

\* its position before the jitter, relative to the centroid, in cm; in these
\* runs the draws of a large wood start at 0, three for each sub-placement
GridOffset(i, j) ==
    LET xy == WoodCentroid(features.woods[i], osm, scale, mathBound)
        p == SubPlacement(i, j)
    IN <<p.pose[1] - xy[1] - Uniform(-500, 500, RandomUnit(seed, 3 * j)),
         p.pose[2] - xy[2] - Uniform(-500, 500, RandomUnit(seed, 3 * j + 1))>>

\* the least and the greatest of a set of offsets are opposite
Balanced(S) ==
    \E lo, hi \in S : /\ \A o \in S : lo <= o /\ o <= hi
                       /\ lo + hi = 0

\* C24: the n sub-placements of a large wood stand, before the jitter, in
\* pairwise distinct cells of a 10 m grid, row j div g and column j mod g
\* with g = floor(sqrt(n)), and the grid is centred on the centroid: the row
\* offsets and the column offsets are each balanced around zero.
C24_GridCentred ==
    Generated =>
        \A i \in 1..Len(features.woods) :
            LET n == Cardinality(SubPlacements(i))
                g == ISqrt(n)
            IN n > 0 =>
                  /\ \A j, k \in 0..(n - 1) :
                        j # k => GridOffset(i, j) # GridOffset(i, k)
                  /\ \A j \in 0..(n - 1) :
                        /\ GridOffset(i, j)[1] - GridOffset(i, 0)[1] = (j \div g) * 1000
                        /\ GridOffset(i, j)[2] - GridOffset(i, 0)[2] = (j % g) * 1000
                  /\ Balanced({GridOffset(i, j)[1] : j \in 0..(n - 1)})
                  /\ Balanced({GridOffset(i, j)[2] : j \in 0..(n - 1)})

\* how often a token occurs in a text
Occurrences(text, tok) == Cardinality({i \in 1..Len(text) : text[i] = tok})

\* C25: after k >= 2 successful runs in a row on one scene file with one OSM
\* document the scene file holds k inserted blocks, so that a placement name
\* such as bench_1 occurs k times, the backup holds the output of run k - 1,
\* and the original content is in neither file.
C25_RunsAccumulate ==
    (Succeeded /\ runs >= 2) =>
        /\ Occurrences(world, MARKER) = runs
        /\ \A a \in 1..Len(placements) :
              placements[a].name = "bench_1"
                 => Occurrences(world, Fragment(placements[a])) = runs
        /\ bak = scenes[runs]
        /\ Occurrences(bak, MARKER) = runs - 1
        /\ world # scenes[1]
        /\ bak # scenes[1]

\* the third run on a scene file that had CR LF line ends and no backup
C25_Witness ==
    /\ Succeeded
    /\ runs = 3
    /\ Len(scenes) = 3
    /\ scenes[1] = <<"x", "CR", "LF", CLOSING_TAG, "CR", "LF">>
    /\ Occurrences(world, MARKER) = 3
    /\ Occurrences(bak, MARKER) = 2
    /\ \E a \in 1..Len(placements) : placements[a].name = "bench_1"

\* the placements written from call c of _latlon_to_xy: the calls are made
\* for the benches, then the trees, then the woods (lines 260, 274, 294), one
\* call each; a wood's call places its marker or all of its trees
CallPlacements(c) ==
    LET nb == Len(features.benches)
        nt == Len(features.trees)
    IN IF c <= nb + nt THEN {c}
       ELSE Markers(c - nb - nt) \cup SubPlacements(c - nb - nt)

\* call c is the one for the centroid of a large wood (line 298)
LargeWoodCall(c) ==
    LET first == Len(features.benches) + Len(features.trees)
    IN c > first /\ IsLargeWood(features.woods[c - first])

\* lines 303-310 with the centroid (0, 0): placement a stands within 5 m, on
\* each axis, of the offset of the cell of tree j (0-based) in the grid of g
\* by g cells of 10 m, row j div g and column j mod g
AroundOrigin(a, j, g) ==
    LET row == j \div g
        col == j % g
    IN /\ placements[a].pose[1] - ((2 * row - g) * GridCell) \div 2 \in -500..500
       /\ placements[a].pose[2] - ((2 * col - g) * GridCell) \div 2 \in -500..500
       /\ \A k \in 3..6 : placements[a].pose[k] = 0

\* C26 as stated: a failure inside _latlon_to_xy is swallowed: whenever a
\* call hits an internal error (the OSM file cannot be parsed again at that
\* moment, or `math` is unbound because the module was imported), it returns
\* (0, 0) instead of raising, so the run still returns True and every
\* placement made from that call is written at the origin.
C26_ConversionSwallowed ==
    features # NoFeatures =>
        /\ result \in {"none", "True"}
        /\ Generated =>
              /\ Len(swallowed) = FeatureCount(features)
              /\ ~mathBound => \A c \in 1..Len(swallowed) : swallowed[c]
              /\ \A c \in 1..Len(swallowed) :
                    swallowed[c] =>
                        \A a \in CallPlacements(c) : AtOrigin(placements[a])

\* C26 amended: a failure inside _latlon_to_xy is swallowed: the call returns
\* (0, 0) instead of raising and the run still returns True. A bench, a tree
\* or a small wood whose call failed is written as one placement at the
\* origin; a large wood whose call failed gets no marker and its
\* min(20, floor(area / 500)) trees are written on the 10 m grid around the
\* origin, tree j at the offset of its own cell (row j div g, column j mod g)
\* plus a jitter of at most 5 m on each axis.
C26_SwallowedCentredOnOrigin ==
    features # NoFeatures =>
        /\ result \in {"none", "True"}
        /\ Generated =>
              /\ Len(swallowed) = FeatureCount(features)
              /\ ~mathBound => \A c \in 1..Len(swallowed) : swallowed[c]
              /\ \A c \in 1..Len(swallowed) :
                    swallowed[c] =>
                        IF LargeWoodCall(c)
                        THEN LET wood == features.woods[c - Len(features.benches)
                                                          - Len(features.trees)]
                                 n == WoodMaxTrees(wood.area)
                                 i == c - Len(features.benches) - Len(features.trees)
                             IN /\ Cardinality(CallPlacements(c)) = n
                                /\ \A a \in CallPlacements(c) :
                                      placements[a].kind = "wood_tree"
                                /\ \A j \in 0..(n - 1) :
                                      \E a \in CallPlacements(c) :
                                         /\ placements[a].name = WoodTreeName(i - 1, j)
                                         /\ AroundOrigin(a, j, ISqrt(n))
                        ELSE /\ Cardinality(CallPlacements(c)) = 1
                             /\ \A a \in CallPlacements(c) : AtOrigin(placements[a])

\* the OSM file damaged between the second and the third call: the second
\* bench is projected, the centroid of the large wood is taken as (0, 0), its
\* twelve trees stand around the origin, the first of them 15 m off on both
\* axes before the jitter, and the run returned True
C26_Witness ==
    /\ Succeeded
    /\ mathBound
    /\ ~osm.parsable
    /\ swallowed = <<FALSE, FALSE, TRUE>>
    /\ ~AtOrigin(placements[2])
    /\ LargeWoodCall(3)
    /\ Cardinality(CallPlacements(3)) = 12
    /\ Len(placements) = 14
    /\ placements[3].name = WoodTreeName(0, 0)
    /\ ~AtOrigin(placements[3])
    /\ placements[3].pose[1] \in -2000..-1000
    /\ placements[3].pose[2] \in -2000..-1000

\* three vertices on one line: A, B, A, three times the same point, or three
\* collinear points
OnOneLine(vs) ==
    /\ Len(vs) = 3
    /\ (vs[2][1] - vs[1][1]) * (vs[3][2] - vs[1][2])
         = (vs[3][1] - vs[1][1]) * (vs[2][2] - vs[1][2])

\* C27: the filter counts resolved references, not distinct vertices: a wood
\* way whose references resolve to A, B, A, or to three collinear or
\* identical points, is kept with area 0 and yields exactly one small-wood
\* placement, of scale 1.0.
C27_DegenerateWoodKept ==
    (Extracted /\ ~ExtractRaises(osm)) =>
        /\ Len(features.woods) = Len(KeptWays)
        /\ \A i \in 1..Len(features.woods) :
              OnOneLine(features.woods[i].nodes) =>
                 /\ features.woods[i].nodes = Resolved(KeptWays[i])
                 /\ features.woods[i].area = 0
                 /\ Generated =>
                       /\ SubPlacements(i) = {}
                       /\ Cardinality(Markers(i)) = 1
                       /\ \A a \in Markers(i) :
                             placements[a].scale = <<100, 100, 100>>

\* the way 101, 103, 101 kept as the first wood, before a square
C27_Witness ==
    /\ Succeeded
    /\ osm.ways[1].refs = <<101, 103, 101>>
    /\ Len(features.woods) = 2
    /\ features.woods[1].nodes = <<<<0, 0>>, <<3, 3>>, <<0, 0>>>>
    /\ features.woods[1].area = 0
    /\ \E a \in 1..Len(placements) :
          /\ placements[a].name = "wood_1"
          /\ placements[a].scale = <<100, 100, 100>>

\* the tree nodes whose only `height` tag holds a text that is not a number
HeightNotNumeric(node) ==
    /\ IsTreeNode(node)
    /\ \E t \in 1..Len(node.tags) : node.tags[t].k = "height"
    /\ \A t \in 1..Len(node.tags) :
          node.tags[t].k = "height" => ~ParseFloat(node.tags[t].v).ok

\* C28: extraction is all-or-nothing: when any node of the document, tagged
\* or not, wood vertex or not, has a lat or lon that is not a number,
\* extract_features returns three empty lists, the benches and trees
\* collected before it included, whereas a `height` that is not a number
\* only falls back to 5.0 and the tree is kept.
C28_AllOrNothing ==
    Extracted =>
        /\ (osm.parsable /\ ~AllNumeric) => features = NoFeatures
        /\ ~ExtractRaises(osm) =>
              /\ Len(features.trees) = Len(TreeNodes)
              /\ \A i \in 1..Len(features.trees) :
                    HeightNotNumeric(TreeNodes[i]) => features.trees[i].height = 50

\* a bench, then an untagged wood vertex whose lat is not a number, in a
\* document whose references are all well formed: nothing is returned
C28_Witness ==
    /\ Extracted
    /\ osm.parsable
    /\ IsTreeNode(osm.nodes[1]) /\ osm.nodes[1].numeric
    /\ osm.nodes[2].tags = <<>> /\ ~osm.nodes[2].numeric
    /\ osm.ways[1].refs = <<101, 2, 103>>
    /\ \A w \in 1..Len(osm.ways) : \A r \in 1..Len(osm.ways[w].refs) :
          osm.ways[w].refs[r] # BadRef
    /\ features = NoFeatures

\* the scripts of the three steps, in the order of the workflow
StepOrder == <<"clean_osm_data.py", "convert_osm_to_gazebo.py", "optimize_complete.py">>

StepFailed(o) == ~(o.kind = "exit" /\ o.code = 0)

SummaryPrinted ==
    \E m \in 1..Len(printed) : printed[m] = "Integrated workflow completed successfully!"

\* the commands main hands over before integrated_workflow is called
IsProbe(command) == command[1] \in {"ogr2ogr", "java"}

Probes == Cardinality({i \in 1..Len(commands) : IsProbe(commands[i])})

\* the commands of the steps, and how they ended
Steps == Len(commands) - Probes

\* C29: in integrated_workflow the three steps run in the order clean,
\* convert, optimize, and a step starts only after the one before it ended
\* with exit status 0; when a step fails, by a non-zero exit or by an error
\* launching it, the process exits with a non-zero status, no later step is
\* started and the success summary is not printed.
C29_StepsInOrder ==
    /\ Steps <= 3 /\ Len(outcomes) = Len(commands)
    /\ \A i \in 1..Probes : IsProbe(commands[i])
    /\ \A i \in 1..Steps :
          /\ commands[Probes + i][1] = StepOrder[i]
          /\ i > 1 => ~StepFailed(outcomes[Probes + i - 1])
          /\ StepFailed(outcomes[Probes + i]) =>
                /\ i = Steps
                /\ wpc = "exited"
                /\ exitStatus \in 1..255
                /\ ~SummaryPrinted
    /\ SummaryPrinted => Steps = 3
    /\ wpc = "returned" => exitStatus = 0 /\ SummaryPrinted

\* the script run from its command line: after both probes and a clean step
\* that succeeded the conversion is killed by signal 9; the process has
\* exited with status 247 and nothing was optimized
C29_Witness ==
    /\ wpc = "exited"
    /\ Probes = 2
    /\ Steps = 2
    /\ outcomes[3] = [kind |-> "exit", code |-> 0]
    /\ outcomes[4] = [kind |-> "exit", code |-> -9]
    /\ exitStatus = 247
    /\ ~SummaryPrinted

\* where the environment block of a text begins and ends, 0 for no block
BlockStart(text) == FindFrom(text, OSM_MODEL, 1)

BlockEnd(text) ==
    IF BlockStart(text) = 0 THEN 0 ELSE FindFrom(text, MODEL_CLOSE, BlockStart(text))

HasBlock(text) == BlockStart(text) # 0 /\ BlockEnd(text) # 0

\* C30: after fix_mesh_orientation with rotation r on a world text that
\* contains the osm_environment block, the block of the output contains a
\* pose equal to 0 0 0 r, an existing pose updated and a missing one added,
\* whatever pose other elements of the world carry, and the text outside
\* the block is unchanged.
C30_PoseInBlock ==
    (fpc = "done" /\ HasBlock(world_found)) =>
        /\ HasBlock(world_path)
        /\ \E i \in BlockStart(world_path)..(BlockEnd(world_path) - 2) :
              /\ world_path[i] = POSE_OPEN
              /\ world_path[i + 1] = PoseContent(rotation)
              /\ world_path[i + 2] = POSE_CLOSE
        /\ SubSeq(world_path, 1, BlockStart(world_path) - 1)
             = SubSeq(world_found, 1, BlockStart(world_found) - 1)
        /\ SubSeq(world_path, BlockEnd(world_path) + 1, Len(world_path))
             = SubSeq(world_found, BlockEnd(world_found) + 1, Len(world_found))

====
